---------------------------- MODULE Spec2Model ----------------------------
(***************************************************************************)
(* A model of mgradyn/izs-llm: the request graph (planner -> hydrator ->   *)
(* architect <-> repair -> renderer) behind POST /generate, and the        *)
(* pydantic construction of the Nextflow pipeline AST.                     *)
(*                                                                         *)
(* Two families of specifications share the variables:                     *)
(*   Spec / FairSpec : one request walking the LangGraph graph             *)
(*                     (src/app/services/graph.py) up to the HTTP answer.  *)
(*   TreeSpec        : a raw candidate tree put through the validators of  *)
(*                     src/app/models/ast_structure.py.                    *)
(* Text is modelled as a sequence of one-character strings, so that        *)
(* prefixes, substrings and split('.') are computed, not assumed.          *)
(***************************************************************************)
EXTENDS Integers, Sequences, FiniteSets, TLC

VARIABLES
    pc,        \* the graph node about to run (or END / raised / returned)
    state,     \* the GraphState channel values of the request
    response,  \* what generate_pipeline answered (NoResponse until it returns)
    log,       \* history: one record per architect.invoke call
    repairs,   \* history: number of repair_node executions
    route,     \* history: the last value should_repair returned
    rendered,  \* history: what renderer_node was given and what it produced
    tree,      \* TreeSpec: the raw candidate tree (a JSON-like value)
    lenient,   \* TreeSpec: the requested emit mode (the code has no such flag)
    stage,     \* TreeSpec: which step has been applied to the tree
    result,    \* TreeSpec: the outcome of that step
    data_loader, \* ConcSpec: the module-level DataLoader instance
    serving,     \* ConcSpec: lifespan has yielded, requests are accepted
    requests,    \* ConcSpec: per request, where its generate_pipeline call is
    heap         \* ConcSpec: the graph-state objects the calls work on

vars == <<pc, state, response, log, repairs, route, rendered,
          tree, lenient, stage, result,
          data_loader, serving, requests, heap>>

reqVars  == <<pc, state, response, log, repairs, route, rendered>>
treeVars == <<tree, lenient, stage, result>>
concVars == <<data_loader, serving, requests, heap>>

\* Python's None, and a key missing from a dict read with .get()
None == "None"

(***************************************************************************)
(* Part 1. The request graph.                                              *)
(***************************************************************************)

\* Texts an exception raised inside architect.invoke can carry: str(e) may be
\* the empty string (an exception constructed without a message).
EmptyErr == ""
Errors == {"E1", "E2", EmptyErr}

\* Results architect.invoke can return (a constructed NextflowPipelineAST).
Trees == {"T1", "T2"}

\* What the external generator call does: return a tree or raise.
GeneratorOutcomes ==
    [ok : {TRUE}, tree : Trees, err : {None}] \cup
    [ok : {FALSE}, tree : {None}, err : Errors]

\* What the two render functions do on a tree: return text or raise.
RenderOutcomes == [nf_ok : BOOLEAN, mm_ok : BOOLEAN]

\* Python truthiness of an Optional[str]
Truthy(v) == v # None /\ v # ""

\* A text channel nobody wrote (reads None); a written one is a non-empty tuple.
NoText == <<>>

\* The input of app_graph.ainvoke: only user_query is set.
InitialState ==
    [user_query |-> "q", design_plan |-> None, technical_context |-> None,
     messages |-> <<>>, ast_json |-> None, validation_error |-> None,
     retries |-> 0, nextflow_code |-> NoText, mermaid_code |-> NoText,
     error |-> None]

\* state.get("retries", 0): the key is missing until a failure writes it, and a
\* missing key reads 0, so the channel is kept as the number it reads as.
GetRetries(st) == st.retries

\* A node either returns the updated state or raises.
Returned(st) == [raised |-> FALSE, st |-> st]
Raised(st, exc) == [raised |-> TRUE, st |-> st, exc |-> exc]

planner_node(st, planOk) ==
    IF planOk
    THEN Returned([st EXCEPT !.design_plan = "plan"])
    ELSE Returned([st EXCEPT !.error = "Planner failed"])

\* state['design_plan'] is a subscript: KeyError when the planner set none.
hydrator_node(st) ==
    IF st.design_plan = None
    THEN Raised(st, "KeyError: design_plan")
    ELSE Returned([st EXCEPT !.technical_context = "ctx"])

\* The first prompt: system rulebook + the human request.
InitialPrompt(st) ==
    << [kind |-> "system", rules |-> TRUE, error |-> None],
       [kind |-> "human", rules |-> FALSE, error |-> None] >>

\* The history architect_node hands to architect.invoke.
ArchitectMessages(st) ==
    IF st.messages = <<>> THEN InitialPrompt(st) ELSE st.messages

\* Whether architect_node reaches architect.invoke at all.
ArchitectInvokes(st) == ~Truthy(st.error)

architect_node_StaleError(st, out) ==
    IF Truthy(st.error)
    THEN Returned(st)
    ELSE IF out.ok
         THEN Returned([st EXCEPT !.ast_json = out.tree,
                                  !.messages = ArchitectMessages(st)])
         ELSE Returned([st EXCEPT !.validation_error = out.err,
                                  !.retries = GetRetries(st) + 1,
                                  !.messages = ArchitectMessages(st)])

architect_node_ResetRetries(st, out) ==
    IF Truthy(st.error)
    THEN Returned(st)
    ELSE IF out.ok
         THEN Returned([st EXCEPT !.ast_json = out.tree,
                                  !.validation_error = None,
                                  !.retries = 0,
                                  !.messages = ArchitectMessages(st)])
         ELSE Returned([st EXCEPT !.validation_error = out.err,
                                  !.retries = GetRetries(st) + 1,
                                  !.messages = ArchitectMessages(st)])

architect_node(st, out) ==
    IF Truthy(st.error)
    THEN Returned(st)
    ELSE IF out.ok
         THEN Returned([st EXCEPT !.ast_json = out.tree,
                                  !.validation_error = None,
                                  !.messages = ArchitectMessages(st)])
         ELSE Returned([st EXCEPT !.validation_error = out.err,
                                  !.retries = GetRetries(st) + 1,
                                  !.messages = ArchitectMessages(st)])

MAX_RETRIES == 3

should_repair_LateFail(st) ==
    IF ~Truthy(st.validation_error) THEN "success"
    ELSE IF GetRetries(st) > MAX_RETRIES THEN "fail"
    ELSE "repair"

should_repair(st) ==
    IF ~Truthy(st.validation_error) THEN "success"
    ELSE IF GetRetries(st) >= MAX_RETRIES THEN "fail"
    ELSE "repair"

\* The HumanMessage repair_node builds: the error and the rulebook again.
RepairInstruction(st) ==
    [kind |-> "repair", rules |-> TRUE, error |-> st.validation_error]

repair_node_Replace(st) ==
    Returned([st EXCEPT !.messages = <<RepairInstruction(st)>>])

repair_node(st) ==
    Returned([st EXCEPT !.messages = Append(st.messages, RepairInstruction(st))])

NfText(t) == <<"nextflow", t>>
MermaidText(t) == <<"mermaid", t>>
MermaidErrorPlaceholder == <<"mermaid", "graph TD; Error[...]">>

renderer_node_DiagramFatal(st, r) ==
    IF Truthy(st.error) THEN Returned(st)
    ELSE IF st.ast_json = None THEN Raised(st, "KeyError: ast_json")
    ELSE IF ~r.nf_ok \/ ~r.mm_ok
         THEN Returned([st EXCEPT !.error = "Nextflow Code Generation Failed"])
    ELSE Returned([st EXCEPT !.nextflow_code = NfText(st.ast_json),
                             !.mermaid_code = MermaidText(st.ast_json)])

renderer_node(st, r) ==
    IF Truthy(st.error) THEN Returned(st)
    ELSE IF st.ast_json = None THEN Raised(st, "KeyError: ast_json")
    ELSE IF ~r.nf_ok
         THEN Returned([st EXCEPT !.error = "Nextflow Code Generation Failed"])
    ELSE Returned([st EXCEPT
            !.nextflow_code = NfText(st.ast_json),
            !.mermaid_code = IF r.mm_ok THEN MermaidText(st.ast_json)
                             ELSE MermaidErrorPlaceholder])

\* generate_pipeline's answer from the final graph state.
generate_pipeline(st) ==
    IF Truthy(st.error)
    THEN [status |-> "failed", plan |-> None, ast_json |-> None,
          nextflow_code |-> NoText, mermaid_code |-> NoText, error |-> st.error]
    ELSE [status |-> "success", plan |-> st.design_plan, ast_json |-> st.ast_json,
          nextflow_code |-> st.nextflow_code, mermaid_code |-> st.mermaid_code,
          error |-> None]

\* generate_pipeline's except branch: HTTPException(500).
Http500(exc) ==
    [status |-> "http500", plan |-> None, ast_json |-> None,
     nextflow_code |-> NoText, mermaid_code |-> NoText, error |-> exc]

NoRender == [entered |-> FALSE, tree |-> None, nf_ran |-> FALSE, mm_ran |-> FALSE,
             nf_ok |-> FALSE, mm_ok |-> FALSE, verr |-> None]

\* The values the TreeSpec variables keep while a request runs.
\* The endpoint has not answered yet.
NoResponse == [status |-> "pending"]

TreeIdle == tree = None /\ lenient = FALSE /\ stage = "idle" /\ result = None

\* The clients whose requests are followed.
Requests == {"r1", "r2"}

\* DataLoader.__init__: nothing loaded.
DataLoader ==
    [vector_store |-> None, code_db |-> "empty", comp_db |-> "empty",
     tmpl_db |-> "empty", res_list |-> "empty"]

\* A client that has not posted its query yet.
IdleRequest ==
    [pc |-> "idle", response |-> NoResponse, route |-> None,
     reads |-> <<>>, inputs |-> <<>>]

\* The values the ConcSpec variables keep in the other specifications.
ConcIdle ==
    /\ data_loader = DataLoader
    /\ serving = FALSE
    /\ requests = [r \in Requests |-> IdleRequest]
    /\ heap = [o \in Requests |-> InitialState]

Init ==
    /\ pc = "planner"
    /\ state = InitialState
    /\ response = NoResponse
    /\ log = <<>>
    /\ repairs = 0
    /\ route = None
    /\ rendered = NoRender
    /\ TreeIdle
    /\ ConcIdle

\* Move to `next` with the node's returned state, or to "raised".
Step(res, next) ==
    /\ state' = res.st
    /\ pc' = IF res.raised THEN "raised" ELSE next

Planner ==
    /\ pc = "planner"
    /\ \E planOk \in BOOLEAN : Step(planner_node(state, planOk), "hydrator")
    /\ UNCHANGED <<response, log, repairs, route, rendered, treeVars, concVars>>

Hydrator ==
    /\ pc = "hydrator"
    /\ Step(hydrator_node(state), "architect")
    /\ UNCHANGED <<response, log, repairs, route, rendered, treeVars, concVars>>

Architect ==
    /\ pc = "architect"
    /\ \E out \in GeneratorOutcomes :
          /\ Step(architect_node(state, out), "should_repair")
          /\ log' = IF ArchitectInvokes(state)
                    THEN Append(log, [history |-> ArchitectMessages(state),
                                      ok |-> out.ok, err |-> out.err,
                                      tree |-> out.tree,
                                      after_terminal |-> route \in {"success", "fail"}])
                    ELSE log
    /\ UNCHANGED <<response, repairs, route, rendered, treeVars, concVars>>

\* The conditional edge after architect: success -> renderer, repair -> repair,
\* fail -> END.
Route ==
    /\ pc = "should_repair"
    /\ route' = should_repair(state)
    /\ pc' = CASE route' = "success" -> "renderer"
               [] route' = "repair" -> "repair"
               [] OTHER -> "END"
    /\ UNCHANGED <<state, response, log, repairs, rendered, treeVars, concVars>>

Repair ==
    /\ pc = "repair"
    /\ Step(repair_node(state), "architect")
    /\ repairs' = repairs + 1
    /\ UNCHANGED <<response, log, route, rendered, treeVars, concVars>>

Renderer ==
    /\ pc = "renderer"
    /\ \E r \in RenderOutcomes :
          /\ Step(renderer_node(state, r), "END")
          /\ rendered' =
               LET runs == ~Truthy(state.error) /\ state.ast_json # None
               IN  [entered |-> TRUE, tree |-> state.ast_json,
                    nf_ran |-> runs, mm_ran |-> runs /\ r.nf_ok,
                    nf_ok |-> runs /\ r.nf_ok,
                    mm_ok |-> runs /\ r.nf_ok /\ r.mm_ok,
                    verr |-> state.validation_error]
    /\ UNCHANGED <<response, log, repairs, route, treeVars, concVars>>

\* generate_pipeline returns: the graph ended, or ainvoke raised.
Respond ==
    /\ pc \in {"END", "raised"}
    /\ response' = IF pc = "END" THEN generate_pipeline(state)
                   ELSE Http500("node raised")
    /\ pc' = "returned"
    /\ UNCHANGED <<state, log, repairs, route, rendered, treeVars, concVars>>

Next ==
    \/ Planner
    \/ Hydrator
    \/ Architect
    \/ Route
    \/ Repair
    \/ Renderer
    \/ Respond

Spec == Init /\ [][Next]_vars

\* LangGraph runs one node after the other to the end of the graph and the
\* endpoint then returns: no step that can be taken is postponed forever.
FairSpec == Spec /\ WF_vars(Next)

(***************************************************************************)
(* Part 2. The pipeline AST (src/app/models/ast_structure.py).             *)
(*                                                                         *)
(* A Python str is a sequence of one-character strings; a dict is a        *)
(* function whose DOMAIN is its key set; a list is a sequence.  A str that *)
(* stands as an element of a list beside dicts is wrapped as [str |-> s].  *)
(***************************************************************************)

\* None where a str is expected (no text has an element of several characters).
PyNone == <<"None">>

\* Python truthiness of an Optional[str]: None and "" are falsy.
TruthyText(t) == t # PyNone /\ t # <<>>

\* dict.get(k, default)
Get(d, k, default) == IF k \in DOMAIN d THEN d[k] ELSE default

\* d[k] = v
SetKey(d, k, v) == [x \in (DOMAIN d) \cup {k} |-> IF x = k THEN v ELSE d[x]]

\* isinstance(v, dict), for an element of a raw list
IsDict(v) == "str" \notin DOMAIN v

\* p.startswith / sub in s / s.split(c)[0] / s.split(c)[-1]
StartsWith(s, p) == Len(s) >= Len(p) /\ SubSeq(s, 1, Len(p)) = p

Contains(s, sub) ==
    \E i \in 0..(Len(s) - Len(sub)) : SubSeq(s, i + 1, i + Len(sub)) = sub

HasChar(s, c) == \E i \in 1..Len(s) : s[i] = c

FirstIndex(s, c) ==
    CHOOSE i \in 1..Len(s) : s[i] = c /\ \A j \in 1..(i - 1) : s[j] # c

LastIndex(s, c) ==
    CHOOSE i \in 1..Len(s) : s[i] = c /\ \A j \in (i + 1)..Len(s) : s[j] # c

SplitHead(s, c) == IF HasChar(s, c) THEN SubSeq(s, 1, FirstIndex(s, c) - 1) ELSE s

SplitLast(s, c) == IF HasChar(s, c) THEN SubSeq(s, LastIndex(s, c) + 1, Len(s)) ELSE s

Whitespace == {" "}

RECURSIVE LStrip(_)
LStrip(s) == IF s # <<>> /\ s[1] \in Whitespace THEN LStrip(Tail(s)) ELSE s

RECURSIVE RStrip(_)
RStrip(s) ==
    IF s # <<>> /\ s[Len(s)] \in Whitespace THEN RStrip(SubSeq(s, 1, Len(s) - 1)) ELSE s

\* s.strip()
Strip(s) == RStrip(LStrip(s))

Lower == {"a", "b", "c", "d", "e", "f", "g", "h", "i", "j", "k", "l", "m",
          "n", "o", "p", "q", "r", "s", "t", "u", "v", "w", "x", "y", "z"}
Upper == {"A", "B", "C", "D", "E", "F", "G", "H", "I", "J", "K", "L", "M",
          "N", "O", "P", "Q", "R", "S", "T", "U", "V", "W", "X", "Y", "Z"}
Digit == {"0", "1", "2", "3", "4", "5", "6", "7", "8", "9"}

\* [a-zA-Z0-9_] and [a-zA-Z_]
WordChar == Lower \cup Upper \cup Digit \cup {"_"}
IdentStart == Lower \cup Upper \cup {"_"}

AllIn(s, chars) == \A i \in 1..Len(s) : s[i] \in chars

\* ^[a-zA-Z_][a-zA-Z0-9_]*$
IsIdentifier(s) == s # <<>> /\ s[1] \in IdentStart /\ AllIn(s, WordChar)

\* s.split(sep) for a one-character separator
RECURSIVE SplitOn(_, _)
SplitOn(s, c) ==
    IF HasChar(s, c)
    THEN <<SubSeq(s, 1, FirstIndex(s, c) - 1)>>
             \o SplitOn(SubSeq(s, FirstIndex(s, c) + 1, Len(s)), c)
    ELSE <<s>>

\* [f(x) for x in seq]
Map(F(_), seq) == [i \in 1..Len(seq) |-> F(seq[i])]

\* x in seq
InSeq(x, seq) == \E i \in 1..Len(seq) : seq[i] = x

(*------------------------- repair_lazy_calls ----------------------------*)

\* The lexical markers a lazy call must contain somewhere in its text.
LazyMarkers == { <<"s", "t", "e", "p", "_">>,
                 <<"p", "r", "e", "p", "a", "r", "e", "_">>,
                 <<"m", "o", "d", "u", "l", "e", "_">>,
                 <<"g", "e", "t">> }

\* The length of the longest prefix of s made of characters of `chars`.
RECURSIVE PrefixLen(_, _)
PrefixLen(s, chars) ==
    IF s # <<>> /\ s[1] \in chars THEN 1 + PrefixLen(Tail(s), chars) ELSE 0

\* re.match(r'^([a-zA-Z0-9_]+)\s*\((.*)\)(\.[a-zA-Z0-9_]+)?$', val): the three
\* groups, or matched = FALSE.  The suffix holds neither ')' nor a second '.',
\* so the greedy (.*) ends at the last ')' and the split is unique.
LazyCallMatch(val) ==
    LET n == PrefixLen(val, WordChar)
        afterName == SubSeq(val, n + 1, Len(val))
        ws == PrefixLen(afterName, Whitespace)
        rest == SubSeq(afterName, ws + 1, Len(afterName))
        noMatch == [matched |-> FALSE, name |-> <<>>, args |-> <<>>, suffix |-> PyNone]
    IN  IF n = 0 \/ rest = <<>> \/ rest[1] # "(" \/ ~HasChar(rest, ")")
        THEN noMatch
        ELSE LET close == LastIndex(rest, ")")
                 tail == SubSeq(rest, close + 1, Len(rest))
                 inner == SubSeq(rest, 2, close - 1)
             IN  IF tail = <<>>
                 THEN [matched |-> TRUE, name |-> SubSeq(val, 1, n),
                       args |-> inner, suffix |-> PyNone]
                 ELSE IF Len(tail) >= 2 /\ tail[1] = "." /\ AllIn(Tail(tail), WordChar)
                 THEN [matched |-> TRUE, name |-> SubSeq(val, 1, n),
                       args |-> inner, suffix |-> tail]
                 ELSE noMatch

\* [a.strip() for a in raw_args.split(',')] if raw_args.strip() else []
LazyArgs(raw_args) ==
    IF Strip(raw_args) = <<>> THEN <<>>
    ELSE LET parts == SplitOn(raw_args, ",")
         IN  [i \in 1..Len(parts) |-> [str |-> Strip(parts[i])]]

\* The process_call dict an assignment that looks like a call is replaced by.
LazyCall(stmt) ==
    LET m == LazyCallMatch(Strip(Get(stmt, "value", <<>>)))
    IN  [type |-> "process_call",
         process_name |-> m.name,
         args |-> LazyArgs(m.args),
         assign_to |-> Get(stmt, "variable", PyNone),
         output_attribute |-> IF m.suffix = PyNone THEN PyNone ELSE Tail(m.suffix)]

IsLazyCall(stmt) ==
    LET val == Strip(Get(stmt, "value", <<>>))
    IN  /\ LazyCallMatch(val).matched
        /\ \E x \in LazyMarkers : Contains(val, x)

RECURSIVE repair_lazy_calls(_)
repair_lazy_calls(statements) ==
    [i \in 1..Len(statements) |->
        LET stmt == statements[i]
        IN  IF Get(stmt, "type", "") = "conditional"
            THEN SetKey(stmt, "body", repair_lazy_calls(Get(stmt, "body", <<>>)))
            ELSE IF Get(stmt, "type", "") = "assignment" /\ IsLazyCall(stmt)
            THEN LazyCall(stmt)
            ELSE stmt]

(*-------------------------- deduplicate_logic ---------------------------*)

\* str() of the numeric values that are falsy: 0 and False
FalsyNumbers == {<<"0">>, <<"F", "a", "l", "s", "e">>}

\* str(arg.get('name') or arg.get('value') or "") for a dict, str(arg) for a str
ArgText(arg) ==
    IF IsDict(arg)
    THEN IF TruthyText(Get(arg, "name", PyNone)) THEN arg.name
         ELSE IF TruthyText(Get(arg, "value", PyNone))
                 /\ ~(Get(arg, "type", "") = "numeric" /\ arg.value \in FalsyNumbers)
         THEN arg.value
         ELSE <<>>
    ELSE arg.str

\* next((inp for inp in inputs if inp in arg_val), None)
FirstInputIn(inputs, arg_val) ==
    IF \E k \in 1..Len(inputs) : Contains(arg_val, inputs[k])
    THEN inputs[CHOOSE k \in 1..Len(inputs) :
                    /\ Contains(arg_val, inputs[k])
                    /\ \A j \in 1..(k - 1) : ~Contains(arg_val, inputs[j])]
    ELSE PyNone

\* The rewriting of the argument at (1-based) position k of a call.
RewriteArg(arg, k, inputs) ==
    LET arg_val == ArgText(arg)
        clean_name == SplitHead(arg_val, ".")
        textual == FirstInputIn(inputs, arg_val)
        match == IF ~TruthyText(textual) /\ k <= Len(inputs) THEN inputs[k]
                 ELSE textual
    IN  IF InSeq(clean_name, inputs) THEN arg
        ELSE IF TruthyText(match) THEN [type |-> "variable", name |-> match]
        ELSE arg

is_chain(stmt) ==
    Get(stmt, "type", "") = "channel_chain" \/ "start_variable" \in DOMAIN stmt

is_call(stmt) ==
    Get(stmt, "type", "") = "process_call" \/ "process_name" \in DOMAIN stmt

\* stmt['args'] = new_args; if 'type' not in stmt: stmt['type'] = 'process_call'
RewriteCall(stmt, inputs) ==
    LET args == Get(stmt, "args", <<>>)
        new_args == [k \in 1..Len(args) |-> RewriteArg(args[k], k, inputs)]
        withArgs == SetKey(stmt, "args", new_args)
    IN  IF "type" \in DOMAIN withArgs THEN withArgs
        ELSE SetKey(withArgs, "type", "process_call")

RECURSIVE clean_block(_, _, _)
clean_block(statements, inputs, sub_wf_names) ==
    IF statements = <<>> THEN <<>>
    ELSE LET stmt == Head(statements)
             rest == clean_block(Tail(statements), inputs, sub_wf_names)
         IN  IF Get(stmt, "type", "") = "conditional"
             THEN LET body == clean_block(Get(stmt, "body", <<>>), inputs, sub_wf_names)
                  IN  IF body # <<>> THEN <<SetKey(stmt, "body", body)>> \o rest
                      ELSE rest
             ELSE IF is_chain(stmt) THEN rest
             ELSE IF is_call(stmt) /\ inputs # <<>>
                     /\ Get(stmt, "process_name", PyNone) \in sub_wf_names
             THEN rest
             ELSE IF is_call(stmt) THEN <<RewriteCall(stmt, inputs)>> \o rest
             ELSE <<stmt>> \o rest

deduplicate_logic(values) ==
    LET main_wf == values.main_workflow
        sub_wfs == Get(values, "sub_workflows", <<>>)
        inputs == Get(main_wf, "take_channels", <<>>)
        sub_wf_names == {sub_wfs[i].name : i \in 1..Len(sub_wfs)}
    IN  IF sub_wfs = <<>> THEN values
        ELSE SetKey(values, "main_workflow",
                    SetKey(main_wf, "body",
                           clean_block(Get(main_wf, "body", <<>>), inputs, sub_wf_names)))

(*------------------- EmitItem.handle_implicit_shorthand ------------------*)

\* The shorthand fix taking the first segment of the path as the public name.
handle_implicit_shorthand_FirstSegment(values) ==
    LET export == Get(values, "export_name", <<>>)
        internal == Get(values, "internal_variable", PyNone)
    IN  IF HasChar(export, ".") /\ ~TruthyText(internal)
        THEN SetKey(SetKey(values, "export_name", SplitHead(export, ".")),
                    "internal_variable", export)
        ELSE values

handle_implicit_shorthand(values) ==
    LET export == Get(values, "export_name", <<>>)
        internal == Get(values, "internal_variable", PyNone)
    IN  IF HasChar(export, ".") /\ ~TruthyText(internal)
        THEN SetKey(SetKey(values, "export_name", SplitLast(export, ".")),
                    "internal_variable", export)
        ELSE values

(*---------------------- construction of the nodes -----------------------*)

\* A constructor returns the object or raises (pydantic ValidationError, or
\* whatever else a validator raised).
Ok(v) == [ok |-> TRUE, value |-> v, err |-> ""]
Fail(e) == [ok |-> FALSE, value |-> <<>>, err |-> e]

\* v evaluated once and handed to F (a local variable of the Python code).
Bind(v, F(_)) == CHOOSE y \in {F(x) : x \in {v}} : TRUE

\* The next validator runs on the value of the previous one, unless it raised.
Then(r, F(_)) == Bind(r, LAMBDA x : IF x.ok THEN F(x.value) ELSE x)

\* The results of constructing every element of a list: the list of the
\* objects, or the first error.
AllOk(results) == \A i \in 1..Len(results) : results[i].ok
Values(results) == [i \in 1..Len(results) |-> results[i].value]
FirstErr(results) ==
    results[CHOOSE i \in 1..Len(results) :
                ~results[i].ok /\ \A j \in 1..(i - 1) : results[j].ok].err
Collect(results) ==
    Bind(results, LAMBDA rs : IF AllOk(rs) THEN Ok(Values(rs)) ELSE Fail(FirstErr(rs)))

Count(s, c) == Cardinality({i \in 1..Len(s) : s[i] = c})

T_step_ == <<"s", "t", "e", "p", "_">>
T_out == <<"o", "u", "t">>
T_star == <<"*">>

(* ImportItem *)
T_as == <<" ", "a", "s", " ">>

RECURSIVE SplitOnText(_, _)
\* s.split(sep) for a separator of several characters
SplitOnText(s, sep) ==
    IF Contains(s, sep)
    THEN LET i == CHOOSE k \in 0..(Len(s) - Len(sep)) :
                    /\ SubSeq(s, k + 1, k + Len(sep)) = sep
                    /\ \A j \in 0..(k - 1) : SubSeq(s, j + 1, j + Len(sep)) # sep
         IN  <<SubSeq(s, 1, i)>> \o SplitOnText(SubSeq(s, i + Len(sep) + 1, Len(s)), sep)
    ELSE <<s>>

validate_aliases(functions) ==
    \A i \in 1..Len(functions) :
        Contains(functions[i], T_as) =>
            LET parts == SplitOnText(functions[i], T_as)
            IN  Len(parts) = 2 /\ Strip(parts[1]) # <<>> /\ Strip(parts[2]) # <<>>

ImportItem(raw) ==
    IF ~validate_aliases(raw.functions)
    THEN Fail("Invalid alias format")
    ELSE Ok([module_path |-> raw.module_path, functions |-> raw.functions])

(* GlobalDef *)
GlobalDef(raw) == Ok([name |-> raw.name, value |-> raw.value])

(* Operators of a ChannelChain *)
LogicOps == {<<"m", "u", "l", "t", "i", "M", "a", "p">>, <<"b", "r", "a", "n", "c", "h">>, <<"m", "a", "p">>}
ParametricOps == {<<"g", "r", "o", "u", "p", "T", "u", "p", "l", "e">>, <<"j", "o", "i", "n">>, <<"m", "i", "x">>, <<"c", "o", "n", "c", "a", "t">>}
FlexibleOps == {<<"f", "i", "l", "t", "e", "r">>, <<"u", "n", "i", "q", "u", "e">>, <<"d", "i", "s", "t", "i", "n", "c", "t">>, <<"c", "o", "l", "l", "e", "c", "t">>, <<"c", "r", "o", "s", "s">>, <<"b", "u", "f", "f", "e", "r">>}
StructuralOps == {<<"f", "l", "a", "t", "t", "e", "n">>, <<"t", "r", "a", "n", "s", "p", "o", "s", "e">>}
T_filter == <<"f", "i", "l", "t", "e", "r">>

\* FlexibleOperator without validate_has_content.
FlexibleOperator_NoContentCheck(raw) == raw.operator \in FlexibleOps

\* Each member of the ChainOperator union, tried on the raw dict.
LogicOperator(raw) ==
    /\ raw.operator \in LogicOps
    /\ "closure_lines" \in DOMAIN raw
    /\ Get(raw, "args", <<>>) = <<>>

ParametricOperator(raw) ==
    /\ raw.operator \in ParametricOps
    /\ "args" \in DOMAIN raw /\ Len(raw.args) >= 1
    /\ Get(raw, "closure_lines", <<>>) = <<>>

FlexibleOperator(raw) ==
    /\ raw.operator \in FlexibleOps
    /\ ~(/\ Get(raw, "args", <<>>) = <<>>
         /\ Get(raw, "closure_lines", <<>>) = <<>>
         /\ raw.operator = T_filter)

StructuralOperator(raw) ==
    /\ raw.operator \in StructuralOps
    /\ Get(raw, "closure_lines", <<>>) = <<>>

ChainOperator(raw) ==
    IF LogicOperator(raw) \/ ParametricOperator(raw) \/ FlexibleOperator(raw)
          \/ StructuralOperator(raw)
    THEN Ok([operator |-> raw.operator,
             args |-> Get(raw, "args", <<>>),
             closure_lines |-> Get(raw, "closure_lines", <<>>)])
    ELSE Fail("operator matches no ChainOperator class")

(* ChannelChain *)
T_ChannelDot == <<"C", "h", "a", "n", "n", "e", "l", ".">>
valid_factories == {<<"C", "h", "a", "n", "n", "e", "l", ".", "f", "r", "o", "m", "P", "a", "t", "h">>, <<"C", "h", "a", "n", "n", "e", "l", ".", "f", "r", "o", "m", "F", "i", "l", "e", "P", "a", "i", "r", "s">>, <<"C", "h", "a", "n", "n", "e", "l", ".", "o", "f">>,
                    <<"C", "h", "a", "n", "n", "e", "l", ".", "v", "a", "l", "u", "e">>, <<"C", "h", "a", "n", "n", "e", "l", ".", "f", "r", "o", "m", "S", "R", "A">>, <<"C", "h", "a", "n", "n", "e", "l", ".", "e", "m", "p", "t", "y">>,
                    <<"C", "h", "a", "n", "n", "e", "l", ".", "f", "r", "o", "m", "L", "i", "s", "t">>, <<"C", "h", "a", "n", "n", "e", "l", ".", "t", "o", "p", "i", "c">>}

\* ^[a-zA-Z_][\w]*(\.[a-zA-Z_][\w]*)*$
IsDottedPath(v) ==
    LET parts == SplitOn(v, ".")
    IN  \A i \in 1..Len(parts) : IsIdentifier(parts[i])

\* ^[a-zA-Z_][\w]*\(.*\)$
IsFunctionCall(v) ==
    LET n == PrefixLen(v, WordChar)
    IN  /\ n >= 1 /\ v[1] \in IdentStart
        /\ Len(v) >= n + 2 /\ v[n + 1] = "(" /\ v[Len(v)] = ")"

validate_source_syntax(start_variable) ==
    LET v == Strip(start_variable)
    IN  IF StartsWith(v, T_ChannelDot)
        THEN IF Strip(SplitHead(v, "(")) \in valid_factories THEN Ok(v)
             ELSE Fail("Unknown Channel factory")
        ELSE IF IsDottedPath(v) \/ IsFunctionCall(v) THEN Ok(v)
        ELSE Fail("Invalid start_variable format")

ChannelChain(raw) ==
    Then(validate_source_syntax(raw.start_variable), LAMBDA start_variable :
    IF "steps" \notin DOMAIN raw \/ Len(raw.steps) < 1
    THEN Fail("steps: at least 1 item")
    ELSE Then(Collect(Map(ChainOperator, raw.steps)), LAMBDA steps :
         IF TruthyText(Get(raw, "set_variable", PyNone))
               /\ start_variable = raw.set_variable
         THEN Fail("Self-assignment detected")
         ELSE Ok([type |-> "channel_chain", start_variable |-> start_variable,
                  steps |-> steps,
                  set_variable |-> Get(raw, "set_variable", PyNone)])))

(* ProcessCall *)
T_true == <<"t", "r", "u", "e">>
T_false == <<"f", "a", "l", "s", "e">>
T_null == <<"n", "u", "l", "l">>

UpperAlphabet == <<"A", "B", "C", "D", "E", "F", "G", "H", "I", "J", "K", "L", "M",
                   "N", "O", "P", "Q", "R", "S", "T", "U", "V", "W", "X", "Y", "Z">>
LowerAlphabet == <<"a", "b", "c", "d", "e", "f", "g", "h", "i", "j", "k", "l", "m",
                   "n", "o", "p", "q", "r", "s", "t", "u", "v", "w", "x", "y", "z">>

\* c.lower() for one character
ToLower(c) ==
    IF c \in Upper
    THEN LowerAlphabet[CHOOSE i \in 1..Len(UpperAlphabet) : UpperAlphabet[i] = c]
    ELSE c

LowerText(s) == [i \in 1..Len(s) |-> ToLower(s[i])]

\* ArgumentParser.parse: a dict carrying 'type' passes; a str is classified.
ArgumentParser_parse(v) ==
    IF IsDict(v) THEN v
    ELSE LET s == Strip(v.str)
         IN  IF Len(s) >= 1 /\ ((s[1] = "'" /\ s[Len(s)] = "'")
                                 \/ (s[1] = "\"" /\ s[Len(s)] = "\""))
             THEN [type |-> "string", value |-> SubSeq(s, 2, Len(s) - 1)]
             ELSE IF (s # <<>> /\ AllIn(s, Digit))
                       \/ LowerText(s) \in {T_true, T_false, T_null}
             THEN [type |-> "numeric",
                   value |-> IF LowerText(s) = T_true THEN <<"T", "r", "u", "e">>
                             ELSE IF LowerText(s) = T_false THEN <<"F", "a", "l", "s", "e">>
                             ELSE IF LowerText(s) = T_null THEN <<"0">>
                             ELSE s]
             ELSE [type |-> "variable", name |-> s]

\* The ProcessArgument union: VarArg | StringArg | NumericArg.
ProcessArgument(raw) ==
    IF \/ (Get(raw, "type", "") = "variable" /\ "name" \in DOMAIN raw)
       \/ (Get(raw, "type", "") \in {"string", "numeric"} /\ "value" \in DOMAIN raw)
    THEN Ok(raw)
    ELSE Fail("argument matches no ProcessArgument class")

\* The validators of ProcessCall without the rule on step_ arguments.
validate_process_call_NoArgRule(self) ==
    IF TruthyText(self.output_attribute) /\ ~TruthyText(self.assign_to)
    THEN Fail("INVALID AST: output_attribute but no assign_to")
    ELSE IF TruthyText(self.assign_to) /\ ~IsIdentifier(self.assign_to)
    THEN Fail("INVALID VARIABLE NAME")
    ELSE Ok(self)

\* validate_process_call_logic, then validate_naming_conventions
validate_process_call(self) ==
    IF StartsWith(self.process_name, T_step_) /\ self.args = <<>>
    THEN Fail("LOGIC ERROR: step_ process has NO arguments")
    ELSE IF TruthyText(self.output_attribute) /\ ~TruthyText(self.assign_to)
    THEN Fail("INVALID AST: output_attribute but no assign_to")
    ELSE IF TruthyText(self.assign_to) /\ ~IsIdentifier(self.assign_to)
    THEN Fail("INVALID VARIABLE NAME")
    ELSE Ok(self)

ProcessCall(raw) ==
    Then(Collect(Map(ProcessArgument,
                     Map(ArgumentParser_parse, Get(raw, "args", <<>>)))),
         LAMBDA args :
            validate_process_call(
                [type |-> "process_call", process_name |-> raw.process_name,
                 args |-> args, assign_to |-> Get(raw, "assign_to", PyNone),
                 output_attribute |-> Get(raw, "output_attribute", PyNone)]))

(* Assignment *)
T_dotmap == <<".", "m", "a", "p">>
T_dotcross == <<".", "c", "r", "o", "s", "s">>

Assignment(raw) ==
    IF Contains(raw.value, T_step_) /\ HasChar(raw.value, "(")
    THEN Fail("Use ProcessCall node type for step execution, not Assignment")
    ELSE IF Contains(raw.value, T_dotmap) \/ Contains(raw.value, T_dotcross)
    THEN Fail("Use ChannelChain node type for logic, not Assignment")
    ELSE Ok([type |-> "assignment", variable |-> raw.variable, value |-> raw.value])

(* ConditionalBlock *)
\* re.search(r'(?<!=)[^!<>]=\s', v) or re.search(r'\s=[^=]', v)
UsesSingleEquals(v) ==
    \/ \E i \in 1..(Len(v) - 2) :
          /\ v[i] \notin {"!", "<", ">"}
          /\ v[i + 1] = "="
          /\ v[i + 2] \in Whitespace
          /\ (i > 1 => v[i - 1] # "=")
    \/ \E i \in 1..(Len(v) - 2) :
          /\ v[i] \in Whitespace
          /\ v[i + 1] = "="
          /\ v[i + 2] # "="

validate_groovy_condition(condition) ==
    LET v == Strip(condition)
    IN  IF v = <<>> THEN Fail("Condition string cannot be empty")
        ELSE IF Count(v, "(") # Count(v, ")")
        THEN Fail("SYNTAX ERROR: Unbalanced parentheses in condition")
        ELSE IF UsesSingleEquals(v)
        THEN Fail("POSSIBLE SYNTAX ERROR: Condition uses single '='")
        ELSE Ok(v)

\* Which member of the statement union a raw dict can only be.
StatementKind(raw) ==
    IF "type" \in DOMAIN raw THEN raw.type
    ELSE IF "process_name" \in DOMAIN raw THEN "process_call"
    ELSE IF "start_variable" \in DOMAIN raw THEN "channel_chain"
    ELSE IF "variable" \in DOMAIN raw THEN "assignment"
    ELSE IF "condition" \in DOMAIN raw THEN "conditional"
    ELSE "unknown"

AllKinds == {"process_call", "channel_chain", "assignment", "conditional"}
EntrypointKinds == {"process_call", "assignment", "conditional"}

\* One element of a body validated against a statement union; the body of a
\* ConditionalBlock is always typed with the full four-member union.
RECURSIVE Statement(_, _)
Statement(raw, kinds) ==
    LET kind == StatementKind(raw)
    IN  IF kind \notin kinds THEN Fail("statement matches no member of the union")
        ELSE IF kind = "process_call" THEN
            IF "process_name" \in DOMAIN raw THEN ProcessCall(raw)
            ELSE Fail("process_name: field required")
        ELSE IF kind = "channel_chain" THEN
            IF "start_variable" \in DOMAIN raw THEN ChannelChain(raw)
            ELSE Fail("start_variable: field required")
        ELSE IF kind = "assignment" THEN
            IF {"variable", "value"} \subseteq DOMAIN raw THEN Assignment(raw)
            ELSE Fail("variable/value: field required")
        ELSE IF ~({"condition", "body"} \subseteq DOMAIN raw)
        THEN Fail("condition/body: field required")
        ELSE Then(validate_groovy_condition(raw.condition), LAMBDA condition :
             Then(Collect([i \in 1..Len(raw.body) |-> Statement(raw.body[i], AllKinds)]),
                  LAMBDA body :
                     Ok([type |-> "conditional", condition |-> condition,
                         body |-> body])))

Statements(raws, kinds) == [i \in 1..Len(raws) |-> Statement(raws[i], kinds)]

(* EmitItem *)
\* ^[a-zA-Z_][\w\.]*$
IsInternalPath(v) ==
    v # <<>> /\ v[1] \in IdentStart /\ AllIn(v, WordChar \cup {"."})

EmitItem(raw) ==
    LET values == handle_implicit_shorthand(raw)
        internal == Get(values, "internal_variable", PyNone)
    IN  IF ~IsIdentifier(values.export_name)
        THEN Fail("SYNTAX ERROR: Invalid export name")
        ELSE IF internal = PyNone
        THEN Ok([export_name |-> values.export_name, internal_variable |-> PyNone])
        ELSE IF Strip(internal) = <<>>
        THEN Fail("Internal variable path cannot be empty")
        ELSE IF ~IsInternalPath(Strip(internal))
        THEN Fail("SYNTAX ERROR: Invalid internal variable path")
        ELSE Ok([export_name |-> values.export_name,
                 internal_variable |-> Strip(internal)])

(* NextflowProcess *)
forbidden == {<<"w", "o", "r", "k", "f", "l", "o", "w">>, <<".", "c", "r", "o", "s", "s", "(">>, <<".", "j", "o", "i", "n", "(">>, <<".", "m", "u", "l", "t", "i", "M", "a", "p">>, <<".", "m", "a", "p", "{">>, <<".", "m", "i", "x", "(">>}
T_prepare == <<"p", "r", "e", "p", "a", "r", "e">>
T_logic == <<"l", "o", "g", "i", "c">>

\* str.isupper(): at least one cased character and no lower-case one
IsUpper(s) ==
    /\ \E i \in 1..Len(s) : s[i] \in Upper
    /\ \A i \in 1..Len(s) : s[i] \notin Lower

NextflowProcess(raw) ==
    IF StartsWith(raw.name, T_step_)
    THEN Fail("Process name starts with 'step_'")
    ELSE IF IsUpper(raw.name)
    THEN Fail("Process is UPPERCASE")
    ELSE IF \E kw \in forbidden : Contains(raw.script_block, kw)
    THEN Fail("INVALID PROCESS CONTENT: DSL2 keyword inside a Process script")
    ELSE Ok([name |-> raw.name,
             container |-> Get(raw, "container", PyNone),
             input_declarations |-> Get(raw, "input_declarations", <<>>),
             output_declarations |-> Get(raw, "output_declarations", <<>>),
             script_block |-> raw.script_block])

(* NextflowWorkflow *)
T_dot_out_dot == <<".", "o", "u", "t", ".">>

\* The statements auto_fix_emits acts on.
NeedsEmit(stmt) ==
    /\ Get(stmt, "type", "") = "process_call"
    /\ TruthyText(Get(stmt, "output_attribute", PyNone))
    /\ ~TruthyText(Get(stmt, "assign_to", PyNone))

\* The emit list after the loop of auto_fix_emits over body (top level only):
\* one EmitItem is constructed per such call unless its export name exists.
RECURSIVE PromoteEmits(_, _)
PromoteEmits(body, emits) ==
    IF body = <<>> THEN Ok(emits)
    ELSE LET stmt == Head(body)
         IN  IF ~NeedsEmit(stmt) THEN PromoteEmits(Tail(body), emits)
             ELSE LET internal == stmt.process_name \o T_dot_out_dot \o stmt.output_attribute
                      export == IF stmt.output_attribute = T_star THEN T_out
                                ELSE stmt.output_attribute
                      item == EmitItem([export_name |-> export,
                                        internal_variable |-> internal])
                  IN  IF \E i \in 1..Len(emits) : emits[i].export_name = export
                      THEN PromoteEmits(Tail(body), emits)
                      ELSE IF ~item.ok THEN Fail(item.err)
                      ELSE PromoteEmits(Tail(body), Append(emits, item.value))

auto_fix_emits(self) ==
    Then(PromoteEmits(self.body, self.emit_channels), LAMBDA emits :
        Ok([self EXCEPT
              !.emit_channels = emits,
              !.body = [i \in 1..Len(self.body) |->
                          IF NeedsEmit(self.body[i])
                          THEN [self.body[i] EXCEPT !.output_attribute = PyNone]
                          ELSE self.body[i]]]))

\* The names validate_scope harvests: the declared inputs and what the
\* top-level statements of the body bind, whatever their position.
Defined(self) ==
    {self.take_channels[i] : i \in 1..Len(self.take_channels)}
    \cup {self.body[i].variable :
            i \in {j \in 1..Len(self.body) : self.body[j].type = "assignment"}}
    \cup {self.body[i].assign_to :
            i \in {j \in 1..Len(self.body) :
                      /\ self.body[j].type = "process_call"
                      /\ TruthyText(self.body[j].assign_to)}}
    \cup {self.body[i].process_name :
            i \in {j \in 1..Len(self.body) : self.body[j].type = "process_call"}}
    \cup {self.body[i].set_variable :
            i \in {j \in 1..Len(self.body) :
                      /\ self.body[j].type = "channel_chain"
                      /\ TruthyText(self.body[j].set_variable)}}

\* target = emit.internal_variable or emit.export_name; root = target.split('.')[0]
EmitRoot(emit) ==
    SplitHead(IF TruthyText(emit.internal_variable) THEN emit.internal_variable
              ELSE emit.export_name, ".")

PruneScope(self) ==
    Ok([self EXCEPT !.emit_channels =
            SelectSeq(self.emit_channels, LAMBDA e : EmitRoot(e) \in Defined(self))])

validate_scope(self) ==
    IF \E i \in 1..Len(self.emit_channels) :
           EmitRoot(self.emit_channels[i]) \notin Defined(self)
    THEN Fail("SCOPE ERROR: emitting an undefined name")
    ELSE Ok(self)

NextflowWorkflow(raw) ==
    Then(Collect(Statements(raw.body, AllKinds)), LAMBDA body :
    Then(Collect(Map(EmitItem, Get(raw, "emit_channels", <<>>))), LAMBDA emit_channels :
    Then(Bind([name |-> raw.name,
               take_channels |-> Get(raw, "take_channels", <<>>),
               body |-> body,
               emit_channels |-> emit_channels], auto_fix_emits),
         validate_scope)))

(* EntrypointWorkflow *)
forbid_complex_logic(self) ==
    IF \E i \in 1..Len(self.body) : self.body[i].type = "channel_chain"
    THEN Fail("ARCHITECTURE ERROR: Entrypoint contains complex logic")
    ELSE Ok(self)

EntrypointWorkflow(raw) ==
    Then(Collect(Statements(repair_lazy_calls(raw.body), EntrypointKinds)),
         LAMBDA body : forbid_complex_logic([body |-> body]))

(* NextflowPipelineAST *)
AttributeError == "AttributeError: 'NextflowPipelineAST' object has no attribute"

\* self.<name> on a model: the field, or AttributeError when it has none.
HasAttr(self, name) == name \in DOMAIN self

validate_prepare_inputs_location(self) ==
    IF \E i \in 1..Len(self.processes) :
          LET p == self.processes[i]
          IN  /\ p.input_declarations = <<>> /\ p.output_declarations = <<>>
              /\ (Contains(LowerText(p.name), T_prepare)
                  \/ Contains(LowerText(p.name), T_logic))
    THEN Fail("looks like logic but is defined as a Process")
    ELSE Ok(self)

ensure_entrypoint_connectivity(self) ==
    IF self.entrypoint.body = <<>> /\ self.main_workflow.take_channels = <<>>
    THEN LET call == ProcessCall([type |-> "process_call",
                                  process_name |-> self.main_workflow.name,
                                  args |-> <<>>, assign_to |-> PyNone])
         IN  IF ~call.ok THEN Fail(call.err)
             ELSE Ok([self EXCEPT !.entrypoint.body = <<call.value>>])
    ELSE Ok(self)

\* The pipeline's own auto_fix_emits reads self.body and self.emit_channels.
pipeline_auto_fix_emits(self) ==
    IF ~HasAttr(self, "body") THEN Fail(AttributeError)
    ELSE IF (\E i \in 1..Len(self.body) : NeedsEmit(self.body[i]))
            /\ ~HasAttr(self, "emit_channels")
    THEN Fail(AttributeError)
    ELSE auto_fix_emits(self)

\* The pipeline's validate_and_prune_scope reads self.take_channels, self.body
\* and self.emit_channels.
validate_and_prune_scope(self) ==
    IF ~({"take_channels", "body", "emit_channels"} \subseteq DOMAIN self)
    THEN Fail(AttributeError)
    ELSE PruneScope(self)

\* The after-validators of the root, in definition order; the first failure ends
\* the construction.
PipelineAfterValidators(self) ==
    Then(validate_prepare_inputs_location(self), LAMBDA s1 :
    Then(ensure_entrypoint_connectivity(s1), LAMBDA s2 :
    Then(pipeline_auto_fix_emits(s2), validate_and_prune_scope)))

\* The fields of the root constructed, in order, from the deduplicated dict.
PipelineFields(values) ==
    Then(Collect(Map(ImportItem, Get(values, "imports", <<>>))), LAMBDA imports :
    Then(Collect(Map(GlobalDef, Get(values, "globals", <<>>))), LAMBDA globals :
    Then(Collect(Map(NextflowProcess, Get(values, "processes", <<>>))), LAMBDA processes :
    Then(Collect(Map(NextflowWorkflow, Get(values, "sub_workflows", <<>>))),
         LAMBDA sub_workflows :
    Then(NextflowWorkflow(values.main_workflow), LAMBDA main_workflow :
    Then(EntrypointWorkflow(values.entrypoint), LAMBDA entrypoint :
        Ok([imports |-> imports, globals |-> globals, processes |-> processes,
            sub_workflows |-> sub_workflows, main_workflow |-> main_workflow,
            entrypoint |-> entrypoint])))))))

NextflowPipelineAST(raw) ==
    Then(Bind(deduplicate_logic(raw), PipelineFields), PipelineAfterValidators)

(*------------------------ render_mermaid.make_id ------------------------*)

\* The characters re.sub(r'[\$\{\}\(\)\.\s\-\[\]\'\",]', '_', ...) replaces.
Sanitized == {"$", "{", "}", "(", ")", ".", "-", "[", "]", "'", "\"", ","} \cup Whitespace

\* The longest sanitized name used as it is.
MaxIdLen == 30

\* 'node_' followed by the first six hex digits of the md5 of the name; the
\* digest prefix is kept symbolic and taken to differ for different names.
HashId(name) == <<"n", "o", "d", "e", "_", "md5[:6] of">> \o name

make_id(name) ==
    IF name = <<>> THEN <<"U", "n", "k", "n", "o", "w", "n">>
    ELSE LET clean == [i \in 1..Len(name) |->
                          IF name[i] \in Sanitized THEN "_" ELSE name[i]]
         IN  IF Len(clean) > MaxIdLen \/ clean[1] = "_" \/ clean[1] \in Digit
             THEN HashId(name)
             ELSE clean

(*---------------------------- canonicalizer -----------------------------*)

\* The rewriting a raw workflow dict undergoes before its fields are checked.
CanonWorkflow(wf) ==
    SetKey(wf, "emit_channels",
           Map(handle_implicit_shorthand, Get(wf, "emit_channels", <<>>)))

\* The raw-dict passes of one construction: deduplication of the main body,
\* the emit shorthand of every workflow, lazy-call repair of the entrypoint.
canonicalize(raw) ==
    LET values == deduplicate_logic(raw)
    IN  [values EXCEPT
           !.main_workflow = CanonWorkflow(values.main_workflow),
           !.sub_workflows = Map(CanonWorkflow, values.sub_workflows),
           !.entrypoint = SetKey(values.entrypoint, "body",
                                 repair_lazy_calls(values.entrypoint.body))]

(***************************************************************************)
(* Part 3. The renderers (src/app/utils/rendering.py and                   *)
(* src/app/services/renderer.py).  The program text is a sequence of       *)
(* lines, each a text; blank lines, which render_nextflow_code collapses,  *)
(* are left out.                                                           *)
(***************************************************************************)

RECURSIVE JoinFrom(_, _, _)
\* sep.join(parts[k:])
JoinFrom(parts, sep, k) ==
    IF k > Len(parts) THEN <<>>
    ELSE IF k = Len(parts) THEN parts[k]
    ELSE parts[k] \o sep \o JoinFrom(parts, sep, k + 1)

JoinText(parts, sep) == JoinFrom(parts, sep, 1)

RECURSIVE ConcatFrom(_, _)
\* The lists parts[k], parts[k+1], ... one after the other.
ConcatFrom(parts, k) ==
    IF k > Len(parts) THEN <<>> ELSE parts[k] \o ConcatFrom(parts, k + 1)

Indent(n) == [i \in 1..n |-> " "]

\* macro render_arg: no filter is applied to arg.value between the quotes.
render_arg(arg) ==
    IF Get(arg, "type", "") = "variable" THEN arg.name
    ELSE IF Get(arg, "type", "") = "string" THEN <<"'">> \o arg.value \o <<"'">>
    ELSE IF Get(arg, "type", "") = "numeric" THEN LowerText(arg.value)
    ELSE ArgText(arg)

\* CASE 1 of render_statements: [assign_to = ]name(arg, ...)[.attr]
CallLine(stmt) ==
    (IF TruthyText(stmt.assign_to) THEN stmt.assign_to \o <<" ", "=", " ">> ELSE <<>>)
    \o stmt.process_name \o <<"(">>
    \o JoinText([k \in 1..Len(stmt.args) |-> render_arg(stmt.args[k])], <<",", " ">>)
    \o <<")">>
    \o (IF TruthyText(stmt.output_attribute) THEN <<".">> \o stmt.output_attribute
        ELSE <<>>)

\* One step of a chain: .operator, its arguments or (), and its closure block.
StepLines(step, indent) ==
    LET args == Get(step, "args", <<>>)
        closure == Get(step, "closure_lines", <<>>)
        head == <<".">> \o step.operator
                \o (IF args # <<>> THEN <<"(">> \o JoinText(args, <<",", " ">>) \o <<")">>
                    ELSE IF closure = <<>> THEN <<"(", ")">>
                    ELSE <<>>)
    IN  IF closure = <<>> THEN <<head>>
        ELSE <<head \o <<" ", "{">>>>
             \o [k \in 1..Len(closure) |-> indent \o Indent(4) \o closure[k]]
             \o <<indent \o <<"}", " ">>>>

\* CASE 2 of render_statements: the steps are glued to the line before them.
GlueLines(lines, more) ==
    IF lines = <<>> THEN more
    ELSE IF more = <<>> THEN lines
    ELSE SubSeq(lines, 1, Len(lines) - 1)
         \o <<lines[Len(lines)] \o more[1]>>
         \o Tail(more)

RECURSIVE GlueSteps(_, _, _, _)
GlueSteps(lines, steps, k, indent) ==
    IF k > Len(steps) THEN lines
    ELSE GlueSteps(GlueLines(lines, StepLines(steps[k], indent)), steps, k + 1, indent)

ChainLines(stmt, indent) ==
    GlueLines(GlueSteps(<<indent \o stmt.start_variable>>, stmt.steps, 1, indent),
              IF TruthyText(stmt.set_variable)
              THEN <<<<".", "s", "e", "t", " ", "{", " ">> \o stmt.set_variable \o <<" ", "}">>>>
              ELSE <<>>)

RECURSIVE render_statements(_, _)
\* macro render_statements: the statements in list order, one after the other.
render_statements(statements, indent_level) ==
    LET indent == Indent(indent_level)
        One(stmt) ==
            IF stmt.type = "process_call" THEN <<indent \o CallLine(stmt)>>
            ELSE IF stmt.type = "channel_chain" THEN ChainLines(stmt, indent)
            ELSE IF stmt.type = "conditional"
            THEN <<indent \o <<"i", "f", " ", "(">> \o stmt.condition \o <<")", " ", "{">>>>
                 \o render_statements(stmt.body, indent_level + 4)
                 \o <<indent \o <<"}">>>>
            ELSE IF stmt.type = "assignment"
            THEN <<indent \o stmt.variable \o <<" ", "=", " ">> \o stmt.value>>
            ELSE <<>>
    IN  ConcatFrom([k \in 1..Len(statements) |-> One(statements[k])], 1)

\* macro render_workflow
render_workflow(wf_obj) ==
    <<<<"w", "o", "r", "k", "f", "l", "o", "w", " ">> \o wf_obj.name \o <<" ", "{">>>>
    \o (IF wf_obj.take_channels # <<>>
        THEN <<Indent(4) \o <<"t", "a", "k", "e", ":">>>>
             \o [k \in 1..Len(wf_obj.take_channels) |->
                    Indent(8) \o wf_obj.take_channels[k]]
        ELSE <<>>)
    \o <<Indent(4) \o <<"m", "a", "i", "n", ":">>>>
    \o render_statements(wf_obj.body, 8)
    \o (IF wf_obj.emit_channels # <<>>
        THEN <<Indent(4) \o <<"e", "m", "i", "t", ":">>>>
             \o [k \in 1..Len(wf_obj.emit_channels) |->
                    LET emit == wf_obj.emit_channels[k]
                    IN  Indent(12) \o
                        (IF TruthyText(emit.internal_variable)
                            /\ emit.internal_variable # emit.export_name
                         THEN emit.export_name \o <<" ", "=", " ">> \o emit.internal_variable
                         ELSE emit.export_name)]
        ELSE <<>>)
    \o <<<<"}">>>>

\* The block of one inline process.
ProcessLines(proc) ==
    <<<<"p", "r", "o", "c", "e", "s", "s", " ">> \o proc.name \o <<" ", "{">>>>
    \o (IF TruthyText(proc.container)
        THEN <<Indent(4) \o <<"c", "o", "n", "t", "a", "i", "n", "e", "r", " ", "\"">> \o proc.container \o <<"\"">> >>
        ELSE <<>>)
    \o <<Indent(4) \o <<"t", "a", "g">>>>
    \o (IF proc.input_declarations # <<>>
        THEN <<Indent(4) \o <<"i", "n", "p", "u", "t", ":">>,
               Indent(8) \o JoinText(proc.input_declarations, <<>>)>>
        ELSE <<>>)
    \o (IF proc.output_declarations # <<>>
        THEN <<Indent(4) \o <<"o", "u", "t", "p", "u", "t", ":">>,
               Indent(8) \o JoinText(proc.output_declarations, <<>>)>>
        ELSE <<>>)
    \o <<Indent(4) \o <<"s", "c", "r", "i", "p", "t", ":">>, Indent(4) \o proc.script_block>>
    \o <<<<"}">>>>

\* Template(NF_TEMPLATE_AST).render(**data): a name the data does not hold
\* (the template iterates `inline_processes`) is undefined and iterates as the
\* empty list.
render_nextflow_code(data) ==
    <<<<"n", "e", "x", "t", "f", "l", "o", "w", ".", "e", "n", "a", "b", "l", "e", ".", "d", "s", "l", "=", "2">>, <<"/", "/", " ", "-", "-", "-", " ", "I", "M", "P", "O", "R", "T", "S", " ", "-", "-", "-">>>>
    \o [k \in 1..Len(data.imports) |->
           <<"i", "n", "c", "l", "u", "d", "e", " ", "{", " ">> \o JoinText(data.imports[k].functions, <<";", " ">>)
           \o <<" ", "}", " ", "f", "r", "o", "m", " ", "'">> \o data.imports[k].module_path \o <<"'">>]
    \o <<<<"/", "/", " ", "-", "-", "-", " ", "G", "L", "O", "B", "A", "L", "S", " ", "-", "-", "-">>>>
    \o [k \in 1..Len(data.globals) |->
           <<"d", "e", "f", " ">> \o data.globals[k].name \o <<" ", "=", " ">> \o data.globals[k].value]
    \o <<<<"/", "/", " ", "-", "-", "-", " ", "I", "N", "L", "I", "N", "E", " ", "P", "R", "O", "C", "E", "S", "S", "E", "S", " ", "(", "C", "u", "s", "t", "o", "m", " ", "S", "c", "r", "i", "p", "t", "s", ")", " ", "-", "-", "-">>>>
    \o ConcatFrom(Map(ProcessLines, Get(data, "inline_processes", <<>>)), 1)
    \o <<<<"/", "/", " ", "-", "-", "-", " ", "M", "A", "I", "N", " ", "W", "O", "R", "K", "F", "L", "O", "W", " ", "M", "O", "D", "U", "L", "E", " ", "-", "-", "-">>, <<"/", "/", " ", "-", "-", "-", " ", "H", "E", "L", "P", "E", "R", " ", "S", "U", "B", "-", "W", "O", "R", "K", "F", "L", "O", "W", "S", " ", "-", "-", "-">>>>
    \o ConcatFrom(Map(render_workflow, data.sub_workflows), 1)
    \o <<<<"/", "/", " ", "-", "-", "-", " ", "M", "A", "I", "N", " ", "W", "O", "R", "K", "F", "L", "O", "W", " ", "M", "O", "D", "U", "L", "E", " ", "-", "-", "-">>>>
    \o render_workflow(data.main_workflow)
    \o <<<<"/", "/", " ", "-", "-", "-", " ", "E", "N", "T", "R", "Y", "P", "O", "I", "N", "T", " ", "W", "O", "R", "K", "F", "L", "O", "W", " ", "-", "-", "-">>, <<"w", "o", "r", "k", "f", "l", "o", "w", " ", "{">>>>
    \o render_statements(data.entrypoint.body, 4)
    \o <<<<"}">>>>

(***************************************************************************)
(* The diagram renderer (services/renderer.py, render_mermaid).  The text  *)
(* is kept as its sequence of lines; variable_registry is a function from  *)
(* names to node ids and seen_edges a set of texts.  The three travel      *)
(* together as a record [lines, reg, seen].                                *)
(***************************************************************************)

RECURSIVE IntText(_)
\* str(n) for a natural number.
IntText(n) ==
    IF n < 10 THEN <<(<<"0", "1", "2", "3", "4", "5", "6", "7", "8", "9">>)[n + 1]>>
    ELSE IntText(n \div 10) \o IntText(n % 10)

clean_label(text) ==
    [i \in 1..Len(text) |->
        IF text[i] = "\n" THEN " " ELSE IF text[i] = "\"" THEN "'" ELSE text[i]]

ignore_keywords ==
    {<<"m", "i", "x">>, <<"j", "o", "i", "n">>, <<"g", "r", "o", "u", "p", "T", "u", "p", "l", "e">>, <<"c", "o", "l", "l", "e", "c", "t">>, <<"m", "a", "p">>, <<"f", "l", "a", "t", "t", "e", "n">>, <<"c", "r", "o", "s", "s">>, <<"m", "u", "l", "t", "i", "M", "a", "p">>,
     <<"t", "r", "u", "e">>, <<"f", "a", "l", "s", "e">>, <<"n", "u", "l", "l">>, <<"i", "t">>, <<"g", "e", "t">>, <<"r", "e", "t", "u", "r", "n">>, <<"b", "r", "a", "n", "c", "h">>, <<"f", "i", "l", "e">>, <<"e", "x", "t", "r", "a", "c", "t", "K", "e", "y">>,
     <<"b", "a", "s", "e", "N", "a", "m", "e">>, <<"s", "i", "m", "p", "l", "e", "N", "a", "m", "e">>, <<"i", "d">>, <<"s", "i", "z", "e">>, <<"e", "x", "i", "s", "t", "s">>, <<"t", "o", "I", "n", "t", "e", "g", "e", "r">>, <<"t", "o", "S", "t", "r", "i", "n", "g">>, <<"v", "i", "e", "w">>}

RECURSIVE TokensFrom(_, _)
\* re.findall(r'\b([a-zA-Z_][\w\.]*)\b', s), scanning from position k.
TokensFrom(s, k) ==
    IF k > Len(s) THEN <<>>
    ELSE IF s[k] \in IdentStart /\ (k = 1 \/ s[k - 1] \notin WordChar)
    THEN LET run == CHOOSE e \in k..Len(s) :
                        /\ \A j \in k..e : s[j] \in WordChar \cup {"."}
                        /\ (e = Len(s) \/ s[e + 1] \notin WordChar \cup {"."})
             last == CHOOSE t \in k..run :
                        /\ s[t] \in WordChar
                        /\ \A j \in (t + 1)..run : s[j] = "."
         IN  <<SubSeq(s, k, last)>> \o TokensFrom(s, last + 1)
    ELSE TokensFrom(s, k + 1)

\* The edge of resolve_variable_link: appended unless its key was seen.
LinkEdge(ctx, src_id, target_node_id, label, style) ==
    LET edge_key == src_id \o <<"|">> \o target_node_id \o <<"|">>
                       \o (IF label = PyNone THEN <<"N", "o", "n", "e">> ELSE label)
        arrow == IF label = PyNone THEN style ELSE <<"-", "-", " ", "\"">> \o label \o <<"\"", " ", "-", "-", ">">>
    IN  IF edge_key \in ctx.seen THEN ctx
        ELSE [ctx EXCEPT
                !.lines = Append(@, <<" ", " ", " ", " ">> \o src_id \o <<" ">> \o arrow
                                       \o <<" ">> \o target_node_id),
                !.seen = @ \cup {edge_key}]

\* One token of the second half of resolve_variable_link.
LinkToken(ctx, token, target_node_id, style) ==
    LET parts == SplitOn(token, ".")
        cleaned_token == IF Len(parts) > 1 /\ parts[Len(parts)] \in ignore_keywords
                         THEN JoinText(SubSeq(parts, 1, Len(parts) - 1), <<".">>)
                         ELSE token
        root == SplitHead(cleaned_token, ".")
        suffix == SubSeq(cleaned_token, Len(root) + 2, Len(cleaned_token))
        label == IF HasChar(cleaned_token, ".") /\ suffix \notin ignore_keywords
                 THEN <<".">> \o suffix ELSE PyNone
    IN  IF root \in DOMAIN ctx.reg /\ root \notin ignore_keywords
        THEN LinkEdge(ctx, ctx.reg[root], target_node_id, label, style)
        ELSE ctx

RECURSIVE LinkTokens(_, _, _, _, _)
LinkTokens(ctx, tokens, k, target_node_id, style) ==
    IF k > Len(tokens) THEN ctx
    ELSE Bind(LinkToken(ctx, tokens[k], target_node_id, style),
              LAMBDA c : LinkTokens(c, tokens, k + 1, target_node_id, style))

resolve_variable_link(text_fragment, target_node_id, ctx, style) ==
    LET root_candidate == SplitHead(text_fragment, ".")
        is_func_call == HasChar(text_fragment, "(") /\ HasChar(text_fragment, ")")
        prop_name == IF HasChar(text_fragment, ".")
                     THEN SplitOn(text_fragment, ".")[2] ELSE <<>>
    IN  IF /\ root_candidate \in DOMAIN ctx.reg
           /\ ~is_func_call
           /\ ~HasChar(text_fragment, " ")
        THEN LinkEdge(ctx, ctx.reg[root_candidate], target_node_id,
                      IF prop_name # <<>> THEN <<".">> \o prop_name ELSE PyNone,
                      style)
        ELSE LinkTokens(ctx, TokensFrom(text_fragment, 1), 1, target_node_id, style)

\* One argument of a process call.
LinkArg(ctx, arg, proc_node_id) ==
    IF arg.type = "variable"
    THEN resolve_variable_link(arg.name, proc_node_id, ctx, <<"-", "-", ">">>)
    ELSE LET const_id == make_id(<<"c", "o", "n", "s", "t", "_">> \o arg.value \o <<"_">> \o proc_node_id)
         IN  IF const_id \in ctx.seen THEN ctx
             ELSE [ctx EXCEPT
                     !.lines = @ \o <<<<" ", " ", " ", " ">> \o const_id \o <<"(">> \o arg.value
                                          \o <<")", ":", ":", ":", "g", "l", "o", "b", "a", "l">>,
                                      <<" ", " ", " ", " ">> \o const_id \o <<" ", "-", ".", "-", ">", " ">> \o proc_node_id>>,
                     !.seen = @ \cup {const_id}]

RECURSIVE LinkArgs(_, _, _, _)
LinkArgs(ctx, args, k, proc_node_id) ==
    IF k > Len(args) THEN ctx
    ELSE Bind(LinkArg(ctx, args[k], proc_node_id),
              LAMBDA c : LinkArgs(c, args, k + 1, proc_node_id))

\* CASE A of process_statements: a process call.
MermaidCall(ctx, stmt, subgraph_prefix, sub_workflow_names) ==
    LET proc_name == stmt.process_name
        proc_node_id == make_id(IF TruthyText(subgraph_prefix)
                                THEN subgraph_prefix \o <<"_">> \o proc_name
                                ELSE proc_name)
        node == IF proc_name \in sub_workflow_names
                THEN <<" ", " ", " ", " ">> \o proc_node_id \o <<"[", "[">> \o proc_name \o <<"]", "]", ":", ":", ":", "s", "u", "b", "w", "o", "r", "k", "f", "l", "o", "w">>
                ELSE <<" ", " ", " ", " ">> \o proc_node_id \o <<"[">> \o proc_name \o <<"]", ":", ":", ":", "p", "r", "o", "c", "e", "s", "s">>
        var_node_id == <<"V", "a", "r", "_">> \o make_id(stmt.assign_to) \o <<"_">> \o proc_node_id
        Output(c) ==
            IF TruthyText(stmt.assign_to)
            THEN [c EXCEPT
                    !.lines = @ \o <<<<" ", " ", " ", " ">> \o var_node_id \o <<"(", "(">> \o stmt.assign_to
                                         \o <<")", ")", ":", ":", ":", "d", "a", "t", "a">>,
                                     <<" ", " ", " ", " ">> \o proc_node_id \o <<" ", "-", "-", ">", " ">> \o var_node_id>>,
                    !.reg = SetKey(SetKey(@, stmt.assign_to, var_node_id),
                                   proc_name, proc_node_id)]
            ELSE [c EXCEPT !.reg = SetKey(@, proc_name, proc_node_id)]
    IN  Bind(LinkArgs([ctx EXCEPT !.lines = Append(@, node)], stmt.args, 1, proc_node_id),
             Output)

\* One step of a channel chain: its arguments, then its closure.
RECURSIVE LinkStepArgs(_, _, _, _)
LinkStepArgs(ctx, args, k, op_node_id) ==
    IF k > Len(args) THEN ctx
    ELSE Bind(resolve_variable_link(args[k], op_node_id, ctx, <<"-", ".", "-", ">">>),
              LAMBDA c : LinkStepArgs(c, args, k + 1, op_node_id))

RECURSIVE LinkSteps(_, _, _, _)
LinkSteps(ctx, steps, k, op_node_id) ==
    IF k > Len(steps) THEN ctx
    ELSE Bind(LinkStepArgs(ctx, steps[k].args, 1, op_node_id),
              LAMBDA c :
                Bind(IF steps[k].closure_lines # <<>>
                     THEN resolve_variable_link(JoinText(steps[k].closure_lines, <<" ">>),
                                                op_node_id, c, <<"-", ".", "-", ">">>)
                     ELSE c,
                     LAMBDA d : LinkSteps(d, steps, k + 1, op_node_id)))

\* CASE B of process_statements: a channel chain.
MermaidChain(ctx, stmt) ==
    LET start_var == stmt.start_variable
        op_name == JoinText([k \in 1..Len(stmt.steps) |-> stmt.steps[k].operator],
                            <<"\\", "n">>)
        op_node_id == make_id(<<"o", "p", "_">> \o start_var \o <<"_">>
                                 \o IntText(Cardinality(ctx.seen)))
        var_node_id == <<"V", "a", "r", "_">> \o make_id(stmt.set_variable) \o <<"_">> \o op_node_id
        first == [ctx EXCEPT !.lines = Append(@, <<" ", " ", " ", " ">> \o op_node_id \o <<"{", "{">> \o op_name
                                                    \o <<"}", "}", ":", ":", ":", "o", "p", "e", "r", "a", "t", "o", "r">>)]
        Output(c) ==
            IF TruthyText(stmt.set_variable)
            THEN [c EXCEPT
                    !.lines = @ \o <<<<" ", " ", " ", " ">> \o var_node_id \o <<"(", "(">> \o stmt.set_variable
                                         \o <<")", ")", ":", ":", ":", "d", "a", "t", "a">>,
                                     <<" ", " ", " ", " ">> \o op_node_id \o <<" ", "-", "-", ">", " ">> \o var_node_id>>,
                    !.reg = SetKey(@, stmt.set_variable, var_node_id)]
            ELSE c
    IN  Bind(IF start_var # <<>>
             THEN resolve_variable_link(start_var, op_node_id, first, <<"-", "-", ">">>)
             ELSE first,
             LAMBDA c : Bind(LinkSteps(c, stmt.steps, 1, op_node_id), Output))

\* CASE D of process_statements: an assignment.
MermaidAssignment(ctx, stmt) ==
    LET var_name == stmt.variable
        value == stmt.value
        assign_id == make_id(<<"a", "s", "s", "i", "g", "n", "_">> \o var_name)
        var_node_id == <<"V", "a", "r", "_">> \o make_id(var_name)
        node == IF HasChar(value, "(") /\ HasChar(value, ")")
                THEN <<" ", " ", " ", " ">> \o assign_id \o <<"[", "[">> \o value \o <<"]", "]", ":", ":", ":", "p", "r", "o", "c", "e", "s", "s">>
                ELSE <<" ", " ", " ", " ">> \o assign_id \o <<"[">> \o value \o <<"]", ":", ":", ":", "o", "p", "e", "r", "a", "t", "o", "r">>
        bound == IF var_name # <<>>
                 THEN [ctx EXCEPT
                         !.lines = @ \o <<node,
                                          <<" ", " ", " ", " ">> \o var_node_id \o <<"(", "(">> \o var_name
                                              \o <<")", ")", ":", ":", ":", "d", "a", "t", "a">>,
                                          <<" ", " ", " ", " ">> \o assign_id \o <<" ", "-", "-", ">", " ">> \o var_node_id>>,
                         !.reg = SetKey(@, var_name, var_node_id)]
                 ELSE [ctx EXCEPT !.lines = Append(@, node)]
    IN  Bind(bound, LAMBDA c : resolve_variable_link(value, assign_id, c, <<"-", "-", ">">>))

\* The subgraph id of a conditional: 'sub_' and the first four hex digits of
\* the md5 of its label, kept symbolic.
SubgraphId(cond_str) == <<"s", "u", "b", "_", "md5[:4] of">> \o cond_str

RECURSIVE process_statements(_, _, _, _, _)
\* process_statements(statements, subgraph_prefix), from statement k on.
process_statements(ctx, statements, k, subgraph_prefix, sub_workflow_names) ==
    IF k > Len(statements) THEN ctx
    ELSE LET stmt == statements[k]
             cond_str == clean_label(stmt.condition)
             sub_id == SubgraphId(cond_str)
             Rest(c) == process_statements(c, statements, k + 1, subgraph_prefix,
                                           sub_workflow_names)
         IN  IF stmt.type = "process_call"
             THEN Bind(MermaidCall(ctx, stmt, subgraph_prefix, sub_workflow_names), Rest)
             ELSE IF stmt.type = "channel_chain"
             THEN Bind(MermaidChain(ctx, stmt), Rest)
             ELSE IF stmt.type = "conditional"
             THEN Bind(process_statements(
                          [ctx EXCEPT !.lines = @ \o
                              <<<<" ", " ", " ", " ", "s", "u", "b", "g", "r", "a", "p", "h", " ">> \o sub_id \o <<" ", "[", "\"", "i", "f", " ">> \o cond_str \o <<"\"", "]">>,
                                <<" ", " ", " ", " ", "d", "i", "r", "e", "c", "t", "i", "o", "n", " ", "T", "B">>>>],
                          stmt.body, 1, sub_id, sub_workflow_names),
                       LAMBDA c : Rest([c EXCEPT !.lines = @ \o
                              <<<<" ", " ", " ", " ", "e", "n", "d">>,
                                <<" ", " ", " ", " ", "s", "t", "y", "l", "e", " ">> \o sub_id
                                    \o <<" ", "f", "i", "l", "l", ":", "#", "f", "f", "e", "b", "e", "e", ",", "s", "t", "r", "o", "k", "e", ":", "#", "c", "6", "2", "8", "2", "8", ",", "s", "t", "r", "o", "k", "e", "-", "d", "a", "s", "h", "a", "r", "r", "a", "y", ":", " ", "5", " ", "5">>>>]))
             ELSE IF stmt.type = "assignment"
             THEN Bind(MermaidAssignment(ctx, stmt), Rest)
             ELSE Rest(ctx)

\* Sections 3 and 4: the globals, then the inputs of the main workflow.
RECURSIVE RegisterGlobals(_, _, _)
RegisterGlobals(ctx, globals_list, k) ==
    IF k > Len(globals_list) THEN ctx
    ELSE Bind(IF globals_list[k].name # <<>>
              THEN [ctx EXCEPT !.reg = SetKey(@, globals_list[k].name,
                                   <<"G", "l", "o", "b", "_">> \o make_id(globals_list[k].name))]
              ELSE ctx,
              LAMBDA c : RegisterGlobals(c, globals_list, k + 1))

RECURSIVE RenderInputs(_, _, _, _)
\* An input node per channel, registered under the channel's name; the node
\* id ends in the scope's suffix (none for the main workflow).
RenderInputs(ctx, channels, k, suffix) ==
    IF k > Len(channels) THEN ctx
    ELSE Bind([ctx EXCEPT
                 !.lines = Append(@, <<" ", " ", " ", " ", "V", "a", "r", "_">> \o make_id(channels[k]) \o suffix
                                        \o <<"(", "[">> \o channels[k] \o <<"]", ")", ":", ":", ":", "d", "a", "t", "a">>),
                 !.reg = SetKey(@, channels[k], <<"V", "a", "r", "_">> \o make_id(channels[k]) \o suffix)],
              LAMBDA c : RenderInputs(c, channels, k + 1, suffix))

RECURSIVE RenderSubWorkflows(_, _, _, _)
\* Section 6: a scope per sub-workflow, its inputs registered in the one
\* variable_registry.
RenderSubWorkflows(ctx, sub_workflows, k, sub_workflow_names) ==
    IF k > Len(sub_workflows) THEN ctx
    ELSE LET sub == sub_workflows[k]
             opened == [ctx EXCEPT !.lines = @ \o
                          <<<<" ", " ", " ", " ", "s", "u", "b", "g", "r", "a", "p", "h", " ">> \o make_id(sub.name) \o <<"_", "s", "c", "o", "p", "e", " ", "[", "\"", "W", "o", "r", "k", "f", "l", "o", "w", ":", " ">>
                                \o sub.name \o <<"\"", "]">>,
                            <<" ", " ", " ", " ", "d", "i", "r", "e", "c", "t", "i", "o", "n", " ", "T", "B">>>>]
         IN  Bind(RenderInputs(opened, sub.take_channels, 1,
                               <<"_">> \o make_id(sub.name)),
                  LAMBDA c :
                    Bind(process_statements(c, sub.body, 1, sub.name, sub_workflow_names),
                         LAMBDA d : RenderSubWorkflows(
                                        [d EXCEPT !.lines = Append(@, <<" ", " ", " ", " ", "e", "n", "d">>)],
                                        sub_workflows, k + 1, sub_workflow_names)))

MermaidHeader ==
    <<<<"f", "l", "o", "w", "c", "h", "a", "r", "t", " ", "T", "D">>,
      <<" ", " ", " ", " ", "c", "l", "a", "s", "s", "D", "e", "f", " ", "p", "r", "o", "c", "e", "s", "s", " ", "f", "i", "l", "l", ":", "#", "e", "1", "f", "5", "f", "e", ",", "s", "t", "r", "o", "k", "e", ":", "#", "0", "1", "5", "7", "9", "b", ",", "s", "t", "r", "o", "k", "e", "-", "w", "i", "d", "t", "h", ":", "2", "p", "x", ";">>,
      <<" ", " ", " ", " ", "c", "l", "a", "s", "s", "D", "e", "f", " ", "s", "u", "b", "w", "o", "r", "k", "f", "l", "o", "w", " ", "f", "i", "l", "l", ":", "#", "e", "8", "e", "a", "f", "6", ",", "s", "t", "r", "o", "k", "e", ":", "#", "3", "f", "5", "1", "b", "5", ",", "s", "t", "r", "o", "k", "e", "-", "w", "i", "d", "t", "h", ":", "2", "p", "x", ",", "s", "t", "r", "o", "k", "e", "-", "d", "a", "s", "h", "a", "r", "r", "a", "y", ":", " ", "5", " ", "5", ";">>,
      <<" ", " ", " ", " ", "c", "l", "a", "s", "s", "D", "e", "f", " ", "o", "p", "e", "r", "a", "t", "o", "r", " ", "f", "i", "l", "l", ":", "#", "f", "f", "f", "9", "c", "4", ",", "s", "t", "r", "o", "k", "e", ":", "#", "f", "b", "c", "0", "2", "d", ",", "s", "t", "r", "o", "k", "e", "-", "w", "i", "d", "t", "h", ":", "2", "p", "x", ",", "s", "t", "r", "o", "k", "e", "-", "d", "a", "s", "h", "a", "r", "r", "a", "y", ":", " ", "5", " ", "5", ";">>,
      <<" ", " ", " ", " ", "c", "l", "a", "s", "s", "D", "e", "f", " ", "d", "a", "t", "a", " ", "f", "i", "l", "l", ":", "#", "e", "0", "e", "0", "e", "0", ",", "s", "t", "r", "o", "k", "e", ":", "#", "3", "3", "3", ",", "s", "t", "r", "o", "k", "e", "-", "w", "i", "d", "t", "h", ":", "2", "p", "x", ";">>,
      <<" ", " ", " ", " ", "c", "l", "a", "s", "s", "D", "e", "f", " ", "g", "l", "o", "b", "a", "l", " ", "f", "i", "l", "l", ":", "#", "f", "3", "e", "5", "f", "5", ",", "s", "t", "r", "o", "k", "e", ":", "#", "7", "b", "1", "f", "a", "2", ",", "s", "t", "r", "o", "k", "e", "-", "w", "i", "d", "t", "h", ":", "1", "p", "x", ";">>>>

\* render_mermaid(ast): the lines of the diagram of a dumped tree.
render_mermaid(ast) ==
    LET mw == ast.main_workflow
        sub_workflow_names == {ast.sub_workflows[k].name : k \in 1..Len(ast.sub_workflows)}
        Main(c) ==
            process_statements([c EXCEPT !.lines = @ \o
                                   <<<<" ", " ", " ", " ", "s", "u", "b", "g", "r", "a", "p", "h", " ", "m", "a", "i", "n", "_", "s", "c", "o", "p", "e", " ", "[", "\"", "M", "a", "i", "n", " ", "W", "o", "r", "k", "f", "l", "o", "w", "\"", "]">>,
                                     <<" ", " ", " ", " ", "d", "i", "r", "e", "c", "t", "i", "o", "n", " ", "T", "B">>>>],
                               mw.body, 1, PyNone, sub_workflow_names)
        Entry(c) ==
            IF ast.entrypoint.body # <<>>
            THEN Bind(process_statements(
                         [c EXCEPT !.lines = @ \o
                             <<<<" ", " ", " ", " ", "e", "n", "d">>, <<" ", " ", " ", " ", "s", "u", "b", "g", "r", "a", "p", "h", " ", "e", "n", "t", "r", "y", "p", "o", "i", "n", "t", "_", "s", "c", "o", "p", "e", " ", "[", "\"", "E", "n", "t", "r", "y", "p", "o", "i", "n", "t", "\"", "]">>>>],
                         ast.entrypoint.body, 1, PyNone, sub_workflow_names),
                      LAMBDA d : Append(d.lines, <<" ", " ", " ", " ", "e", "n", "d">>))
            ELSE Append(c.lines, <<" ", " ", " ", " ", "e", "n", "d">>)
    IN  Bind(RegisterGlobals([lines |-> MermaidHeader, reg |-> <<>>, seen |-> {}],
                             ast.globals, 1),
             LAMBDA a :
               Bind(RenderInputs(a, mw.take_channels, 1, <<>>),
                    LAMBDA b :
                      Bind(RenderSubWorkflows(b, ast.sub_workflows, 1, sub_workflow_names),
                           LAMBDA c : Bind(Main(c), Entry))))

(***************************************************************************)
(* TreeSpec: raw candidate trees, drawn from small pools, put through the  *)
(* canonicalizer passes and the constructors.                              *)
(***************************************************************************)

\* The longest main-workflow body drawn.
MaxBody == 2

N_reads == <<"r", "e", "a", "d", "s">>
N_QC == <<"Q", "C">>
N_main == <<"m", "a", "i", "n">>
N_b == <<"b">>
N_ab == <<"a", ".", "b">>
N_x == <<"x">>
N_y == <<"y">>
N_zz == <<"z", "z">>
N_G == <<"G">>
N_step_a == <<"s", "t", "e", "p", "_", "a">>
N_step_b == <<"s", "t", "e", "p", "_", "b">>

Var(name) == [type |-> "variable", name |-> name]

\* Raw statements a generator may emit.
S_callQC ==
    [type |-> "process_call", process_name |-> N_QC, args |-> <<Var(N_reads)>>]
S_callA ==
    [type |-> "process_call", process_name |-> N_step_a,
     args |-> <<Var(N_reads)>>, assign_to |-> N_y]
S_callPositional ==
    [type |-> "process_call", process_name |-> N_step_a,
     args |-> <<Var(N_b), [str |-> N_x]>>, assign_to |-> N_x]
S_callUnbound ==
    [type |-> "process_call", process_name |-> N_step_a, args |-> <<Var(N_zz)>>]
S_callUsesY ==
    [type |-> "process_call", process_name |-> N_step_b, args |-> <<Var(N_y)>>]
S_callUsesGlobal ==
    [type |-> "process_call", process_name |-> N_step_b, args |-> <<Var(N_G)>>]
S_chain ==
    [type |-> "channel_chain", start_variable |-> N_reads,
     steps |-> <<[operator |-> <<"m", "a", "p">>, closure_lines |-> <<<<"i", "t">>>>]>>,
     set_variable |-> N_y]
S_assign ==
    [type |-> "assignment", variable |-> N_y, value |-> <<"1">>]
S_lazy ==
    [type |-> "assignment", variable |-> N_y, value |-> <<"s", "t", "e", "p", "_", "a", "(", "r", "e", "a", "d", "s", ")", ".", "o", "u", "t">>]
S_condChain ==
    [type |-> "conditional", condition |-> <<"p">>, body |-> <<S_chain>>]
\* Conditionals two levels deep, and one the generator left without its
\* `type` key (the field has a default, so the key is optional).
S_condNested ==
    [type |-> "conditional", condition |-> <<"p">>,
     body |-> <<S_callQC, S_callA,
                [type |-> "conditional", condition |-> <<"p">>,
                 body |-> <<S_chain, S_callQC, S_assign>>]>>]
S_condUntyped ==
    [condition |-> <<"p">>, body |-> <<S_chain, S_callUsesY>>]

StmtPool == {S_callQC, S_callA, S_callPositional, S_callUnbound, S_callUsesY,
             S_callUsesGlobal, S_chain, S_assign, S_lazy, S_condChain}

RECURSIVE SeqsUpTo(_, _)
\* The sequences over `pool` of length at most n.
SeqsUpTo(pool, n) ==
    IF n = 0 THEN {<<>>}
    ELSE LET shorter == SeqsUpTo(pool, n - 1)
         IN  shorter \cup {Append(q, e) : q \in shorter, e \in pool}

BodyPool == SeqsUpTo(StmtPool, MaxBody)

\* Calls that read a named output of the process they run.
T_bam == <<"b", "a", "m">>
S_callAccessor ==
    [type |-> "process_call", process_name |-> N_step_a,
     args |-> <<Var(N_reads)>>, assign_to |-> N_y, output_attribute |-> T_bam]
S_callStarAccessor ==
    [type |-> "process_call", process_name |-> N_step_a,
     args |-> <<Var(N_reads)>>, assign_to |-> N_y, output_attribute |-> T_star]
S_callBareAccessor ==
    [type |-> "process_call", process_name |-> N_step_a,
     args |-> <<Var(N_reads)>>, output_attribute |-> T_bam]

AccessorBodyPool == { <<S_callAccessor>>, <<S_callStarAccessor>>,
                      <<S_callBareAccessor>>, <<S_callUsesGlobal, S_callAccessor>> }

\* Bodies with statements inside conditionals.
NestedBodyPool == { <<S_condNested>>,
                    <<S_assign, S_condNested, S_callUsesY>>,
                    <<S_condUntyped>>,
                    <<S_callA, S_condUntyped>> }

TakePool == {<<>>, <<N_reads>>, <<N_b, N_ab>>}

EmitPool == { <<>>,
              <<[export_name |-> N_y]>>,
              <<[export_name |-> N_zz]>>,
              <<[export_name |-> <<"s", "t", "e", "p", "_", "a", ".", "o", "u", "t">>]>>,
              <<[export_name |-> N_y], [export_name |-> N_zz]>> }

W_QC ==
    [name |-> N_QC, take_channels |-> <<N_reads>>,
     body |-> <<S_callA>>, emit_channels |-> <<[export_name |-> N_y]>>]

SubWorkflowPool == {<<>>, <<W_QC>>}

EntrypointPool == { [body |-> <<>>],
                    [body |-> <<[type |-> "process_call", process_name |-> N_main,
                                 args |-> <<[str |-> N_G]>>]>>],
                    [body |-> <<S_lazy>>] }

I_steps ==
    [module_path |-> <<".", ".", "/", "s", "t", "e", "p", "s", "/", "a">>, functions |-> <<N_step_a, N_step_b>>]

\* A raw candidate tree around a main workflow and an entrypoint.
Tree(subs, take, body, emits, ep) ==
    [imports |-> <<I_steps>>,
     globals |-> <<[name |-> N_G, value |-> <<"1">>]>>,
     processes |-> <<>>,
     sub_workflows |-> subs,
     main_workflow |-> [name |-> N_main, take_channels |-> take,
                        body |-> body, emit_channels |-> emits],
     entrypoint |-> ep]

\* The raw candidate trees: every body with and without sub-workflows and
\* declared inputs; every body with every emit list; every entrypoint; the
\* bodies with nested conditionals; the bodies with output accessors.
CandidateTrees ==
    {Tree(subs, take, body, <<>>, [body |-> <<>>]) :
        subs \in SubWorkflowPool, take \in TakePool, body \in BodyPool}
    \cup {Tree(<<>>, take, body, emits, [body |-> <<>>]) :
        take \in {<<>>, <<N_reads>>}, body \in BodyPool, emits \in EmitPool}
    \cup {Tree(subs, take, <<S_callA>>, <<[export_name |-> N_y]>>, ep) :
        subs \in SubWorkflowPool, take \in TakePool, ep \in EntrypointPool}
    \cup {Tree(subs, take, body, <<>>, [body |-> <<>>]) :
        subs \in SubWorkflowPool, take \in TakePool, body \in NestedBodyPool}
    \cup {Tree(<<>>, <<N_reads>>, body, emits, [body |-> <<>>]) :
        body \in AccessorBodyPool,
        emits \in {<<>>, <<[export_name |-> N_y]>>, <<[export_name |-> T_bam]>>}}

\* The values the request variables keep while a tree is examined.
RequestIdle ==
    /\ pc = "idle" /\ state = InitialState /\ response = NoResponse /\ log = <<>>
    /\ repairs = 0 /\ route = None /\ rendered = NoRender

TreeInit ==
    /\ tree \in CandidateTrees
    /\ lenient = FALSE
    /\ stage = "raw"
    /\ result = Fail("not run")
    /\ RequestIdle
    /\ ConcIdle

\* The canonicalizer passes run on the raw tree ...
Canonicalize ==
    /\ stage = "raw"
    /\ result' = [ok |-> TRUE, value |-> canonicalize(tree), err |-> ""]
    /\ stage' = "canon"
    /\ UNCHANGED <<tree, lenient, reqVars, concVars>>

\* ... and on their own output.
CanonicalizeAgain ==
    /\ stage = "canon"
    /\ result' = [ok |-> TRUE, value |-> canonicalize(result.value),
                  err |-> "", once |-> result.value]
    /\ stage' = "canon2"
    /\ UNCHANGED <<tree, lenient, reqVars, concVars>>

\* NextflowWorkflow(**main_workflow): the main workflow constructed on its own,
\* in the emit mode the caller wants (the constructor takes no such argument).
ConstructWorkflow ==
    /\ stage = "raw"
    /\ lenient' \in BOOLEAN
    /\ result' = NextflowWorkflow(tree.main_workflow)
    /\ stage' = "workflow"
    /\ UNCHANGED <<tree, reqVars, concVars>>

\* NextflowPipelineAST(**tree): what the generator's structured output does.
ConstructPipeline ==
    /\ stage = "raw"
    /\ result' = NextflowPipelineAST(tree)
    /\ stage' = "pipeline"
    /\ UNCHANGED <<tree, lenient, reqVars, concVars>>

TreeNext ==
    \/ Canonicalize
    \/ CanonicalizeAgain
    \/ ConstructWorkflow
    \/ ConstructPipeline

TreeSpec == TreeInit /\ [][TreeNext]_vars

(***************************************************************************)
(* NodeSpec: one raw node, drawn from small pools, handed to the           *)
(* constructor of its class.                                               *)
(***************************************************************************)

\* A raw dict with the optional list fields a generator may leave out.
WithOptional(base, key, choice) ==
    IF choice = "absent" THEN base
    ELSE SetKey(base, key, IF choice = "empty" THEN <<>> ELSE <<<<"x">>>>)

ListChoices == {"absent", "empty", "one"}

\* Operators of every class, and one of none.
OperatorNames == LogicOps \cup ParametricOps \cup FlexibleOps \cup StructuralOps \cup {<<"f", "o", "o">>}

OperatorPool ==
    {[kind |-> "operator",
      raw |-> WithOptional(WithOptional([operator |-> op], "args", a),
                           "closure_lines", c)] :
        op \in OperatorNames, a \in ListChoices, c \in ListChoices}

\* Import entries inside and outside the two module namespaces.
ImportPool ==
    {[kind |-> "import", raw |-> [module_path |-> path, functions |-> fns]] :
        path \in {<<".", ".", "/", "s", "t", "e", "p", "s", "/", "a">>, <<".", ".", "/", "f", "u", "n", "c", "t", "i", "o", "n", "s", "/", "h">>, <<"/", "e", "t", "c", "/", "x">>, <<"s", "t", "e", "p", "s", "/", "a">>},
        fns \in {<<N_step_a>>, <<<<"A", " ", "a", "s", " ", "B">>>>, <<<<"A", " ", "a", "s", " ">>>>, <<>>}}

\* Direct process calls.
CallPool ==
    {[kind |-> "call",
      raw |-> LET named == [type |-> "process_call", process_name |-> name]
                  withArgs == IF a = "absent" THEN named
                              ELSE SetKey(named, "args",
                                          IF a = "empty" THEN <<>>
                                          ELSE IF a = "one" THEN <<Var(N_reads)>>
                                          ELSE <<[str |-> N_x], [str |-> <<"'", "s", "'">>]>>)
                  withAssign == IF v = PyNone THEN withArgs
                                ELSE SetKey(withArgs, "assign_to", v)
              IN  IF acc = PyNone THEN withAssign
                  ELSE SetKey(withAssign, "output_attribute", acc)] :
        name \in {N_step_a, N_QC}, a \in ListChoices \cup {"two"},
        v \in {PyNone, N_x, <<"1", "x">>}, acc \in {PyNone, <<"b", "a", "m">>}}

S_lazyNoArgs ==
    [type |-> "assignment", variable |-> N_y, value |-> <<"s", "t", "e", "p", "_", "a", "(", ")">>]
S_lazyBlank ==
    [type |-> "assignment", variable |-> N_y, value |-> <<"s", "t", "e", "p", "_", "a", "(", " ", ")", ".", "o", "u", "t">>]
S_callMain ==
    [type |-> "process_call", process_name |-> N_main, args |-> <<[str |-> N_G]>>]
S_condLazy ==
    [type |-> "conditional", condition |-> <<"p">>, body |-> <<S_lazyNoArgs>>]

\* Entrypoint bodies.
\* Conditionals with the conditions a generator writes: comparisons with and
\* without spaces, negations, assignments, unbalanced parentheses, blanks.
ConditionPool ==
    {[kind |-> "conditional",
      raw |-> [type |-> "conditional", condition |-> c, body |-> <<S_assign>>]] :
        c \in {<<"a", " ", "=", "=", " ", "b">>, <<"a", "=", "=", "b">>, <<"a", " ", "!", "=", " ", "b">>, <<"a", "!", "=", "b">>, <<"a", " ", ">", "=", " ", "b">>, <<"a", " ", "<", "=", " ", "b">>,
               <<"x", " ", "=", " ", "1">>, <<"x", "=", "1">>, <<"x", " ", "=", "1">>, <<"(", "a">>, <<"f", "(", "a", ")">>, <<"f", "(", "a", ")", " ", "=", "=", " ", "b">>, <<"p">>, <<"!", "p">>,
               <<" ">>, <<>>, <<"a", " ", "=", "=", " ", "b", ")">>, <<"p", "a", "r", "a", "m", "s", ".", "x">>}}

EntrypointNodePool ==
    {[kind |-> "entrypoint", raw |-> [body |-> body]] :
        body \in {<<>>, <<S_callMain>>, <<S_chain>>, <<S_callMain, S_chain>>,
                  <<S_condChain>>, <<S_callMain, S_condChain>>, <<S_lazy>>,
                  <<S_lazyNoArgs>>, <<S_lazyBlank>>, <<S_callMain, S_lazyNoArgs>>,
                  <<S_condLazy>>, <<S_assign>>}}

\* Raw emit entries: export names with and without dots, the internal source
\* left out, None, empty or given.
EmitNodePool ==
    {[kind |-> "emit",
      raw |-> IF internal = <<"absent">> THEN [export_name |-> export]
              ELSE [export_name |-> export, internal_variable |-> internal]] :
        export \in {<<"s", "t", "e", "p", "_", "A", ".", "o", "u", "t">>, <<"o", "u", "t">>, <<"a", ".", "b", ".", "c">>, <<"x", ".">>},
        internal \in {<<"absent">>, PyNone, <<>>, N_y, <<"Q", "C", ".", "o", "u", "t", ".", "b", "a", "m">>}}

\* Semantic names the diagram renderer makes node ids of.
NamePool ==
    {<<"a", ".", "b">>, <<"a", "_", "b">>, <<"a", "-", "b">>, <<"a", " ", "b">>, <<>>, <<"U", "n", "k", "n", "o", "w", "n">>, <<"_", "x">>, <<"1", "x">>, N_x, <<"o", "p", "_", "r", "e", "a", "d", "s", "_", "0">>,
     <<"p", "r", "e", "p", "a", "r", "e", "_", "i", "n", "p", "u", "t", "s", "_", "f", "o", "r", "_", "a", "l", "i", "g", "n", "m", "e", "n", "t", "_", "v", "2">>, <<"p", "r", "e", "p", "a", "r", "e", ".", "i", "n", "p", "u", "t", "s", ".", "f", "o", "r", ".", "a", "l", "i", "g", "n", "m", "e", "n", "t", ".", "v", "2">>}

NamePairPool ==
    {[kind |-> "names", raw |-> [first |-> pair[1], second |-> pair[2]]] :
        pair \in {q \in NamePool \X NamePool : q[1] # q[2]}}

\* One raw node of one kind.
NodeInit ==
    /\ \/ tree \in OperatorPool
       \/ tree \in ImportPool
       \/ tree \in CallPool
       \/ tree \in EntrypointNodePool
       \/ tree \in EmitNodePool
       \/ tree \in NamePairPool
       \/ tree \in ConditionPool
    /\ lenient = FALSE
    /\ stage = "node"
    /\ result = Fail("not run")
    /\ RequestIdle
    /\ ConcIdle

\* One step of a ChannelChain validated against the ChainOperator union.
ConstructOperator ==
    /\ stage = "node" /\ tree.kind = "operator"
    /\ result' = ChainOperator(tree.raw)
    /\ stage' = "operator"
    /\ UNCHANGED <<tree, lenient, reqVars, concVars>>

ConstructImport ==
    /\ stage = "node" /\ tree.kind = "import"
    /\ result' = ImportItem(tree.raw)
    /\ stage' = "import"
    /\ UNCHANGED <<tree, lenient, reqVars, concVars>>

ConstructCall ==
    /\ stage = "node" /\ tree.kind = "call"
    /\ result' = ProcessCall(tree.raw)
    /\ stage' = "call"
    /\ UNCHANGED <<tree, lenient, reqVars, concVars>>

ConstructEntrypoint ==
    /\ stage = "node" /\ tree.kind = "entrypoint"
    /\ result' = EntrypointWorkflow(tree.raw)
    /\ stage' = "entrypoint"
    /\ UNCHANGED <<tree, lenient, reqVars, concVars>>

\* The before-validator of EmitItem on a raw entry.
ShorthandEmit ==
    /\ stage = "node" /\ tree.kind = "emit"
    /\ result' = Ok(handle_implicit_shorthand(tree.raw))
    /\ stage' = "emit"
    /\ UNCHANGED <<tree, lenient, reqVars, concVars>>

\* The diagram renderer makes the node ids of two names.
MakeIds ==
    /\ stage = "node" /\ tree.kind = "names"
    /\ result' = Ok(<<make_id(tree.raw.first), make_id(tree.raw.second)>>)
    /\ stage' = "ids"
    /\ UNCHANGED <<tree, lenient, reqVars, concVars>>

\* A ConditionalBlock validated as a member of the statement union.
ConstructConditional ==
    /\ stage = "node" /\ tree.kind = "conditional"
    /\ result' = Statement(tree.raw, AllKinds)
    /\ stage' = "conditional"
    /\ UNCHANGED <<tree, lenient, reqVars, concVars>>

NodeNext ==
    \/ ConstructOperator
    \/ ConstructImport
    \/ ConstructCall
    \/ ConstructEntrypoint
    \/ ShorthandEmit
    \/ MakeIds
    \/ ConstructConditional

NodeSpec == NodeInit /\ [][NodeNext]_vars

(***************************************************************************)
(* ConcSpec: the server process with two clients.  lifespan loads the      *)
(* reference data, then each POST /generate runs the graph on a state of   *)
(* its own; LangGraph runs the nodes of different calls in any order.      *)
(***************************************************************************)

\* What load_all can leave behind (its exceptions are swallowed by lifespan):
\* everything loaded; FAISS.load_local failed; a catalog file failed to parse
\* after the code store was read, so the index was never reached.
LoadOutcomes == {"loaded", "index_error", "catalog_error"}

load_all(self, outcome) ==
    IF outcome = "catalog_error" THEN [self EXCEPT !.code_db = "codes"]
    ELSE [vector_store |-> IF outcome = "loaded" THEN "index"
                           ELSE self.vector_store,
          code_db |-> "codes", comp_db |-> "components",
          tmpl_db |-> "templates", res_list |-> "helpers"]

\* The state object of a call: app_graph.ainvoke is handed a dict literal, a
\* new object at every call.
StateObject_Shared(r) == "r1"

StateObject(r) == r

\* One step of one call, from its own position and state object, the outside
\* answer it consumed and the reference data it read: planner_node reads the
\* index and the catalogs (retrieve_rag_context), hydrator_node the catalogs.
NodeStep(cur, input, dl) ==
    LET req == [cur.req EXCEPT !.inputs = Append(@, input)]
        st == cur.st
        Read(q) == [q EXCEPT !.reads = Append(@, dl)]
        Done(res, next, q) ==
            [req |-> [q EXCEPT !.pc = IF res.raised THEN "raised" ELSE next],
             st |-> res.st]
    IN  CASE input.node = "accept" ->
               [req |-> [req EXCEPT !.pc = "planner"],
                st |-> [InitialState EXCEPT !.user_query = input.arg]]
          [] input.node = "planner" ->
               Done(planner_node(st, input.arg), "hydrator", Read(req))
          [] input.node = "hydrator" ->
               Done(hydrator_node(st), "architect", Read(req))
          [] input.node = "architect" ->
               Done(architect_node(st, input.arg), "should_repair", req)
          [] input.node = "should_repair" ->
               [req |-> [req EXCEPT
                           !.route = should_repair(st),
                           !.pc = CASE should_repair(st) = "success" -> "renderer"
                                    [] should_repair(st) = "repair" -> "repair"
                                    [] OTHER -> "END"],
                st |-> st]
          [] input.node = "repair" ->
               Done(repair_node(st), "architect", req)
          [] input.node = "renderer" ->
               Done(renderer_node(st, input.arg), "END", req)
          [] OTHER ->
               [req |-> [req EXCEPT
                           !.response = IF req.pc = "END" THEN generate_pipeline(st)
                                        ELSE Http500("node raised"),
                           !.pc = "returned"],
                st |-> st]

ConcInit ==
    /\ ConcIdle
    /\ TreeIdle
    /\ RequestIdle

\* lifespan: data_loader.load_all() before the first request is served.
Lifespan ==
    /\ ~serving
    /\ \E outcome \in LoadOutcomes : data_loader' = load_all(data_loader, outcome)
    /\ serving' = TRUE
    /\ UNCHANGED <<requests, heap, reqVars, treeVars>>

\* Client r's call takes the step `node`, consuming the outside answer `arg`.
RequestStep(r, node, arg) ==
    /\ serving
    /\ \E nxt \in {NodeStep([req |-> requests[r], st |-> heap[StateObject(r)]],
                            [node |-> node, arg |-> arg], data_loader)} :
          /\ requests' = [requests EXCEPT ![r] = nxt.req]
          /\ heap' = [heap EXCEPT ![StateObject(r)] = nxt.st]
    /\ UNCHANGED <<data_loader, serving, reqVars, treeVars>>

\* generate_pipeline: app_graph.ainvoke({"user_query": request.query})
AcceptRequest(r) ==
    requests[r].pc = "idle" /\ RequestStep(r, "accept", r)

RunPlanner(r) ==
    /\ requests[r].pc = "planner"
    /\ \E planOk \in BOOLEAN : RequestStep(r, "planner", planOk)

RunHydrator(r) ==
    requests[r].pc = "hydrator" /\ RequestStep(r, "hydrator", None)

RunArchitect(r) ==
    /\ requests[r].pc = "architect"
    /\ \E out \in GeneratorOutcomes : RequestStep(r, "architect", out)

RunRoute(r) ==
    requests[r].pc = "should_repair" /\ RequestStep(r, "should_repair", None)

RunRepair(r) ==
    requests[r].pc = "repair" /\ RequestStep(r, "repair", None)

RunRenderer(r) ==
    /\ requests[r].pc = "renderer"
    /\ \E out \in RenderOutcomes : RequestStep(r, "renderer", out)

AnswerRequest(r) ==
    requests[r].pc \in {"END", "raised"} /\ RequestStep(r, "respond", None)

ConcNext ==
    \/ Lifespan
    \/ \E r \in Requests : AcceptRequest(r)
    \/ \E r \in Requests : RunPlanner(r)
    \/ \E r \in Requests : RunHydrator(r)
    \/ \E r \in Requests : RunArchitect(r)
    \/ \E r \in Requests : RunRoute(r)
    \/ \E r \in Requests : RunRepair(r)
    \/ \E r \in Requests : RunRenderer(r)
    \/ \E r \in Requests : AnswerRequest(r)

ConcSpec == ConcInit /\ [][ConcNext]_vars

(***************************************************************************)
(* RenderSpec: the two render functions of renderer_node as pure functions *)
(* of a dumped tree.  The inputs are the dictionaries of trees whose       *)
(* fields pass the field validation, with the fields as the constructors   *)
(* leave them.                                                             *)
(***************************************************************************)

\* An inline process with a script of its own.
P_custom ==
    [name |-> <<"c", "u", "s", "t", "o", "m">>, input_declarations |-> <<<<"p", "a", "t", "h", " ", "x">>>>,
     script_block |-> <<"e", "c", "h", "o">>]

\* Calls whose one argument is a string literal, a boolean or a number.
StringValues == {<<"x">>, <<"i", "t", "'", "s">>, <<"'">>}

R_callString(v) ==
    [type |-> "process_call", process_name |-> N_step_b,
     args |-> <<[type |-> "string", value |-> v]>>]

R_callBool ==
    [type |-> "process_call", process_name |-> N_step_b,
     args |-> <<[str |-> <<"T", "r", "u", "e">>]>>]

S_condCall ==
    [type |-> "conditional", condition |-> <<"p">>, body |-> <<S_callA>>]

RenderStmtPool ==
    {S_callA, S_callQC, S_chain, S_assign, S_condCall, R_callBool}
        \cup {R_callString(v) : v \in StringValues}

\* What surrounds the main body: inline processes, sub-workflows, declared
\* inputs, and the entrypoint body.
RenderShapes ==
    { [processes |-> <<>>, sub_workflows |-> <<>>, take |-> <<>>,
       entrypoint |-> [body |-> <<>>]],
      [processes |-> <<P_custom>>, sub_workflows |-> <<>>, take |-> <<N_reads>>,
       entrypoint |-> [body |-> <<[type |-> "process_call", process_name |-> N_main,
                                   args |-> <<[str |-> N_G]>>]>>]],
      [processes |-> <<>>, sub_workflows |-> <<W_QC>>, take |-> <<N_reads>>,
       entrypoint |-> [body |-> <<>>]],
      [processes |-> <<P_custom>>, sub_workflows |-> <<W_QC>>, take |-> <<>>,
       entrypoint |-> [body |-> <<>>]] }

RenderTrees ==
    {[Tree(shape.sub_workflows, shape.take, body, <<>>, shape.entrypoint)
         EXCEPT !.processes = shape.processes] :
        shape \in RenderShapes, body \in SeqsUpTo(RenderStmtPool, MaxBody)}

RenderInit ==
    /\ tree \in RenderTrees
    /\ lenient = FALSE
    /\ stage = "ast"
    /\ result = Fail("not run")
    /\ RequestIdle
    /\ ConcIdle

\* The dictionary the render functions read: the fields of the tree as the
\* constructors left them.
model_dump(raw) == PipelineFields(raw)

\* renderer_node: nf_code = render_nextflow_code(ast_dict)
RenderNextflow ==
    /\ stage = "ast"
    /\ \E ast \in {model_dump(tree)} :
          /\ ast.ok
          /\ result' = Ok(render_nextflow_code(ast.value))
    /\ stage' = "nextflow"
    /\ UNCHANGED <<tree, lenient, reqVars, concVars>>

\* renderer_node: mermaid_code = render_mermaid(ast_dict)
RenderMermaid ==
    /\ stage = "ast"
    /\ \E ast \in {model_dump(tree)} :
          /\ ast.ok
          /\ result' = Ok(render_mermaid(ast.value))
    /\ stage' = "mermaid"
    /\ UNCHANGED <<tree, lenient, reqVars, concVars>>

RenderNext ==
    \/ RenderNextflow
    \/ RenderMermaid

RenderSpec == RenderInit /\ [][RenderNext]_vars

(***************************************************************************)
(* Claims about the request graph.                                         *)
(***************************************************************************)

\* The repair loop's terminal states: the routing function said success or fail.
Succeeded == route = "success"
Failed == route = "fail"

\* C1: when the repair loop ends in Failed, generate_pipeline answers with
\* status "failed" carrying the last validation error, never "success", and
\* with no program or diagram text.
C1_FailedIsReportedAsFailure ==
    (pc = "returned" /\ Failed) =>
        /\ response.status = "failed"
        /\ response.error = state.validation_error
        /\ response.nextflow_code = NoText
        /\ response.mermaid_code = NoText

\* C2: a request whose every candidate fails reaches Failed after exactly
\* MAX_RETRIES repairs, that is MAX_RETRIES + 1 generation attempts.
C2_ThreeRepairsBeforeFailed ==
    Failed => (repairs = MAX_RETRIES /\ Len(log) = MAX_RETRIES + 1)

\* The first two generation attempts failed validation and the third passed.
FailFailPass ==
    /\ Len(log) >= 3
    /\ ~log[1].ok /\ ~log[2].ok /\ log[3].ok

\* C4: if the first two attempts fail and the third passes, the loop ends in
\* Succeeded with retries = 2, no further attempt is made, and the renderer
\* runs on the third candidate.
C4_SucceedsOnThirdAttempt ==
    FailFailPass =>
        /\ Len(log) = 3
        /\ GetRetries(state) = 2
        /\ state.ast_json = log[3].tree
        /\ pc # "repair"
        /\ (pc \in {"renderer", "END", "returned"} => Succeeded)
        /\ (pc \in {"END", "returned"} =>
               rendered.nf_ran /\ rendered.tree = log[3].tree)

C4_Witness ==
    /\ FailFailPass
    /\ pc = "returned"
    /\ Succeeded
    /\ GetRetries(state) = 2
    /\ rendered.nf_ran /\ rendered.tree = log[3].tree

\* C5: whatever the generator's outcomes, the loop makes a bounded number of
\* generator calls (at most MAX_RETRIES), makes none after a terminal state,
\* and once entered always reaches Succeeded or Failed.
C5_LoopTerminates ==
    /\ [](Len(log) <= MAX_RETRIES)
    /\ [][(Succeeded \/ Failed) => log' = log]_vars
    /\ (Len(log) > 0) ~> (Succeeded \/ Failed)

C5_Witness ==
    /\ Len(log) = MAX_RETRIES
    /\ \E i \in 1..Len(log) : ~log[i].ok
    /\ Succeeded
    /\ pc = "returned"

\* C6: the history given to attempt n+1 is the history given to attempt n
\* followed by exactly one repair instruction, which restates the rules and
\* carries the error of attempt n; nothing earlier is removed or altered.
C6_HistoryOnlyGrowsByFeedback ==
    /\ (Len(log) >= 1 => log[1].history = InitialPrompt(InitialState))
    /\ \A n \in 1..(Len(log) - 1) :
          log[n + 1].history =
              Append(log[n].history,
                     [kind |-> "repair", rules |-> TRUE, error |-> log[n].err])
    /\ repairs <= Len(log)
    /\ (pc = "architect" /\ repairs > 0 =>
          /\ Len(state.messages) = Len(log[Len(log)].history) + 1
          /\ state.messages[Len(state.messages)].kind = "repair")

C6_Witness ==
    /\ Len(log) = 3
    /\ repairs = 2
    /\ log[1].err # log[2].err
    /\ Len(log[3].history) = 4

\* C7: a diagram-rendering failure leaves the program text returned with the
\* diagram replaced by the error placeholder; a program-rendering failure is
\* fatal: error is set and neither text is returned.
C7_RenderersFailIndependently ==
    /\ (pc \in {"END", "returned"} /\ rendered.nf_ok /\ rendered.mm_ran
            /\ ~rendered.mm_ok) =>
          /\ state.nextflow_code = NfText(rendered.tree)
          /\ state.mermaid_code = MermaidErrorPlaceholder
          /\ ~Truthy(state.error)
          /\ (pc = "returned" =>
                /\ response.status = "success"
                /\ response.nextflow_code = NfText(rendered.tree)
                /\ response.mermaid_code = MermaidErrorPlaceholder)
    /\ (pc \in {"END", "returned"} /\ rendered.nf_ran /\ ~rendered.nf_ok) =>
          /\ Truthy(state.error)
          /\ ~rendered.mm_ran
          /\ state.nextflow_code = NoText
          /\ state.mermaid_code = NoText
          /\ (pc = "returned" =>
                /\ response.status = "failed"
                /\ response.error = state.error
                /\ response.nextflow_code = NoText
                /\ response.mermaid_code = NoText)

C7_Witness ==
    /\ pc = "returned"
    /\ rendered.nf_ok /\ rendered.mm_ran /\ ~rendered.mm_ok
    /\ response.status = "success"
    /\ response.mermaid_code = MermaidErrorPlaceholder

\* The other case of C7 is reachable too: a fatal program-rendering failure.
C7_FatalCaseReached ==
    /\ pc = "returned"
    /\ rendered.nf_ran /\ ~rendered.nf_ok
    /\ response.status = "failed"


(***************************************************************************)
(* Claims about candidate trees.  The scope of section 4.3 is written here *)
(* as the specification words it, next to what the constructors compute.   *)
(***************************************************************************)

\* The text before the first '.' or '(' of a reference.
RefRoot(ref) == SplitHead(SplitHead(ref, "."), "(")

\* The symbol an import entry brings into scope: its alias when it has one.
ImportedSymbol(fn) ==
    IF Contains(fn, T_as) THEN Strip(SplitOnText(fn, T_as)[2]) ELSE Strip(fn)

\* What the scope of a workflow of tree t is seeded with.
SeedScope(t, wf) ==
    {wf.take_channels[i] : i \in 1..Len(wf.take_channels)}
    \cup {t.globals[i].name : i \in 1..Len(t.globals)}
    \cup UNION {{ImportedSymbol(t.imports[i].functions[j]) :
                    j \in 1..Len(t.imports[i].functions)} : i \in 1..Len(t.imports)}
    \cup {t.sub_workflows[i].name : i \in 1..Len(t.sub_workflows)}
    \cup {t.processes[i].name : i \in 1..Len(t.processes)}

\* The names a top-level statement adds to the scope.
Binds(stmt) ==
    IF Get(stmt, "type", "") = "assignment" THEN {stmt.variable}
    ELSE IF Get(stmt, "type", "") = "process_call"
    THEN {stmt.process_name}
         \cup (IF TruthyText(Get(stmt, "assign_to", PyNone)) THEN {stmt.assign_to} ELSE {})
    ELSE IF Get(stmt, "type", "") = "channel_chain"
            /\ TruthyText(Get(stmt, "set_variable", PyNone))
    THEN {stmt.set_variable}
    ELSE {}

\* The variable references a top-level statement makes.
Refs(stmt) ==
    IF Get(stmt, "type", "") = "process_call"
    THEN {stmt.args[i].name :
            i \in {j \in 1..Len(stmt.args) : stmt.args[j].type = "variable"}}
    ELSE IF Get(stmt, "type", "") = "channel_chain"
            /\ ~StartsWith(stmt.start_variable, T_ChannelDot)
    THEN {stmt.start_variable}
    ELSE {}

\* The scope in front of statement i of a body.
ScopeAt(t, wf, i) == SeedScope(t, wf) \cup UNION {Binds(wf.body[j]) : j \in 1..(i - 1)}

\* Every reference of the body of wf has its root in scope where it stands.
RefsInScope(t, wf) ==
    \A i \in 1..Len(wf.body) :
        \A ref \in Refs(wf.body[i]) : RefRoot(ref) \in ScopeAt(t, wf, i)

\* The effective source of a raw emit entry resolves against the built scope.
EmitResolves(t, wf, emit) ==
    LET e == handle_implicit_shorthand(emit)
        target == IF TruthyText(Get(e, "internal_variable", PyNone))
                  THEN e.internal_variable ELSE e.export_name
    IN  RefRoot(target) \in ScopeAt(t, wf, Len(wf.body) + 1)

\* The tree's nodes all pass their constructors and the semantic checks of
\* section 4.3 hold of it: scope, emits, entrypoint, misclassification guard.
SatisfiesAllRules(t) ==
    LET fields == PipelineFields(deduplicate_logic(t))
    IN  /\ fields.ok
        /\ validate_prepare_inputs_location(fields.value).ok
        /\ RefsInScope(fields.value, fields.value.main_workflow)
        /\ \A i \in 1..Len(fields.value.sub_workflows) :
              RefsInScope(fields.value, fields.value.sub_workflows[i])

\* C3: a candidate tree that satisfies every local shape rule and every
\* semantic check passes the construction of the root with no error.
C3_ValidTreeConstructs ==
    (stage = "pipeline" /\ SatisfiesAllRules(tree)) => result.ok

\* C8: a workflow whose body refers to a name bound nowhere, or bound only by a
\* later statement, fails validation: whenever the main workflow constructs,
\* every reference of its body has its root in scope where it stands.
C8_ReferencesResolveInScope ==
    (stage = "workflow" /\ result.ok) => RefsInScope(tree, result.value)

\* The raw workflow without the emits that resolve against nothing.
DropUnresolvable(t, wf) ==
    SetKey(wf, "emit_channels",
           SelectSeq(wf.emit_channels, LAMBDA e : EmitResolves(t, wf, e)))

\* C9: an emit whose root resolves against nothing fails the workflow in strict
\* mode; in lenient mode it is dropped and the workflow is otherwise treated as
\* if the emit had not been written.
C9_StrictFailsLenientDrops ==
    (stage = "workflow"
        /\ \E i \in 1..Len(tree.main_workflow.emit_channels) :
               ~EmitResolves(tree, tree.main_workflow, tree.main_workflow.emit_channels[i]))
    => IF lenient
       THEN result = NextflowWorkflow(DropUnresolvable(tree, tree.main_workflow))
       ELSE ~result.ok

\* C10: the canonicalizer passes applied to their own output change nothing.
C10_CanonicalizeIdempotent ==
    stage = "canon2" => result.value = result.once


(***************************************************************************)
(* Claims about single nodes.                                              *)
(***************************************************************************)

\* C11: an operator is constructed only if the emptiness of its arguments and
\* closure matches its class: a closure-only operator has a non-empty closure
\* and no argument; a parametric operator has arguments and no closure line.
C11_OperatorEmptinessMatchesClass ==
    (stage = "operator" /\ result.ok) =>
        /\ tree.raw.operator \in LogicOps =>
              /\ Get(tree.raw, "closure_lines", <<>>) # <<>>
              /\ Get(tree.raw, "args", <<>>) = <<>>
        /\ tree.raw.operator \in ParametricOps =>
              /\ Get(tree.raw, "args", <<>>) # <<>>
              /\ Get(tree.raw, "closure_lines", <<>>) = <<>>

\* C12: a filter operator with neither argument nor closure line is rejected;
\* a filter with an argument or a closure line is accepted.
C12_FilterRequiresContent ==
    (stage = "operator" /\ tree.raw.operator = T_filter) =>
        (result.ok <=> ~(/\ Get(tree.raw, "args", <<>>) = <<>>
                         /\ Get(tree.raw, "closure_lines", <<>>) = <<>>))

C12_Witness ==
    /\ stage = "operator" /\ tree.raw.operator = T_filter
    /\ Get(tree.raw, "args", <<>>) = <<>>
    /\ Get(tree.raw, "closure_lines", <<>>) = <<>>
    /\ ~result.ok

\* C13: an import entry is constructed only if its module path starts with
\* the tool namespace '../steps/' or the helper namespace '../functions/'.
C13_ImportPathHasNamespacePrefix ==
    (stage = "import" /\ result.ok) =>
        \/ StartsWith(tree.raw.module_path, <<".", ".", "/", "s", "t", "e", "p", "s", "/">>)
        \/ StartsWith(tree.raw.module_path, <<".", ".", "/", "f", "u", "n", "c", "t", "i", "o", "n", "s", "/">>)

\* A body holds a ChannelChain, at the top or inside a conditional.
RECURSIVE HoldsChain(_)
HoldsChain(body) ==
    \E i \in 1..Len(body) :
        \/ Get(body[i], "type", "") = "channel_chain"
        \/ /\ Get(body[i], "type", "") = "conditional"
           /\ HoldsChain(Get(body[i], "body", <<>>))

\* C14: an entrypoint whose body holds a ChannelChain fails validation, and
\* the error is the architecture error that names the chain's operators.
C14_EntrypointChainIsArchitectureError ==
    (stage = "entrypoint" /\ HoldsChain(tree.raw.body)) =>
        /\ ~result.ok
        /\ result.err = "ARCHITECTURE ERROR: Entrypoint contains complex logic"

\* The top-level calls of a body whose target is a standard tool given no
\* argument.
BareToolCalls(body) ==
    {i \in 1..Len(body) :
        /\ Get(body[i], "type", "") = "process_call"
        /\ StartsWith(body[i].process_name, T_step_)
        /\ Get(body[i], "args", <<>>) = <<>>}

\* C16: a call of a step_ process with no argument fails construction, given
\* directly or produced from an assignment by lazy-call repair.
C16_ToolCallNeedsArgument ==
    /\ (stage = "call" /\ StartsWith(tree.raw.process_name, T_step_)
           /\ Get(tree.raw, "args", <<>>) = <<>>)
        => (~result.ok /\ result.err = "LOGIC ERROR: step_ process has NO arguments")
    /\ (stage = "entrypoint" /\ BareToolCalls(repair_lazy_calls(tree.raw.body)) # {})
        => ~result.ok

C16_Witness ==
    /\ stage = "entrypoint"
    /\ tree.raw.body = <<S_lazyNoArgs>>
    /\ BareToolCalls(tree.raw.body) = {}
    /\ BareToolCalls(repair_lazy_calls(tree.raw.body)) = {1}
    /\ ~result.ok
    /\ result.err = "LOGIC ERROR: step_ process has NO arguments"

C16_DirectCallReached ==
    /\ stage = "call" /\ tree.raw.process_name = N_step_a
    /\ "args" \in DOMAIN tree.raw /\ tree.raw.args = <<>>
    /\ ~result.ok

\* The raw entry names no internal source: the key is missing, None or empty.
NoInternalSource(raw) == ~TruthyText(Get(raw, "internal_variable", PyNone))

\* C17: a raw emit entry with a dotted export name and no internal source
\* comes out with the whole dotted text as internal source and the text after
\* its last dot as export name; any other entry comes out unchanged.
C17_ShorthandEmitIsRewritten ==
    stage = "emit" =>
        IF HasChar(tree.raw.export_name, ".") /\ NoInternalSource(tree.raw)
        THEN /\ result.value.internal_variable = tree.raw.export_name
             /\ ~HasChar(result.value.export_name, ".")
             /\ \E n \in 1..Len(tree.raw.export_name) :
                   /\ tree.raw.export_name[n] = "."
                   /\ SubSeq(tree.raw.export_name, n + 1, Len(tree.raw.export_name))
                         = result.value.export_name
             /\ DOMAIN result.value = {"export_name", "internal_variable"}
        ELSE result.value = tree.raw

C17_Witness ==
    /\ stage = "emit"
    /\ tree.raw = [export_name |-> <<"s", "t", "e", "p", "_", "A", ".", "o", "u", "t">>]
    /\ result.value = [export_name |-> <<"o", "u", "t">>, internal_variable |-> <<"s", "t", "e", "p", "_", "A", ".", "o", "u", "t">>]

\* C18: two distinct names never get the same node id.
C18_NodeIdsDistinct ==
    (stage = "ids" /\ tree.raw.first # tree.raw.second) => result.value[1] # result.value[2]


(***************************************************************************)
(* Claims about deduplication and emit promotion.                          *)
(***************************************************************************)

RECURSIVE Leaves(_)
\* The statements of a body that are not conditionals, at every depth, in
\* order; a conditional is anything that has a body.
Leaves(body) ==
    IF body = <<>> THEN <<>>
    ELSE LET stmt == Head(body)
         IN  (IF "body" \in DOMAIN stmt THEN Leaves(stmt.body) ELSE <<stmt>>)
             \o Leaves(Tail(body))

SubWorkflowNames(t) ==
    {t.sub_workflows[i].name : i \in 1..Len(t.sub_workflows)}

TargetsSubWorkflow(stmt, t) ==
    "process_name" \in DOMAIN stmt /\ stmt.process_name \in SubWorkflowNames(t)

\* What identifies a statement whatever its arguments were rewritten to.
Signature(stmt) ==
    <<Get(stmt, "process_name", PyNone), Get(stmt, "start_variable", PyNone),
      Get(stmt, "variable", PyNone), Get(stmt, "assign_to", PyNone)>>

Signatures(stmts) == [i \in 1..Len(stmts) |-> Signature(stmts[i])]

\* C15: when sub-workflows exist and the main workflow declares inputs, the
\* deduplicated main body holds no ChannelChain and no call of a sub-workflow
\* at any conditional depth, and its other statements are kept in order.
C15_DedupRemovesChainsAndSubCalls ==
    (stage = "canon" /\ tree.sub_workflows # <<>>
        /\ tree.main_workflow.take_channels # <<>>)
    => LET before == Leaves(tree.main_workflow.body)
           after == Leaves(result.value.main_workflow.body)
           Remains(stmt) == ~("start_variable" \in DOMAIN stmt)
                            /\ ~TargetsSubWorkflow(stmt, tree)
       IN  /\ \A i \in 1..Len(after) : Remains(after[i])
           /\ Signatures(after) = Signatures(SelectSeq(before, Remains))

\* The export name auto_fix_emits gives the output a call reads.
ExportOf(stmt) ==
    IF stmt.output_attribute = T_star THEN T_out ELSE stmt.output_attribute

\* A raw top-level call that reads a named output no raw emit entry exports.
CarriesUnmatchedAccessor(wf, i) ==
    LET stmt == wf.body[i]
        emits == Get(wf, "emit_channels", <<>>)
    IN  /\ "process_name" \in DOMAIN stmt
        /\ TruthyText(Get(stmt, "output_attribute", PyNone))
        /\ \A k \in 1..Len(emits) : emits[k].export_name # ExportOf(stmt)

\* C20: in a constructed workflow, every call of the body that carried an
\* output accessor with no matching emit entry has one in the emit list
\* (named after the accessor, "out" for `*`) and has lost its accessor.
C20_AccessorCallsGetAnEmit ==
    (stage = "workflow" /\ result.ok)
    => \A i \in 1..Len(tree.main_workflow.body) :
          CarriesUnmatchedAccessor(tree.main_workflow, i)
          => /\ \E k \in 1..Len(result.value.emit_channels) :
                   result.value.emit_channels[k].export_name
                       = ExportOf(tree.main_workflow.body[i])
             /\ result.value.body[i].output_attribute = PyNone

(***************************************************************************)
(* Claims about concurrent requests.                                       *)
(***************************************************************************)

RECURSIVE RunAlone(_, _)
\* The call that consumes the outside answers `inputs` with no other call in
\* the process, over the reference data dl.
RunAlone(inputs, dl) ==
    IF inputs = <<>> THEN [req |-> IdleRequest, st |-> InitialState]
    ELSE Bind(RunAlone(SubSeq(inputs, 1, Len(inputs) - 1), dl),
              LAMBDA cur : NodeStep(cur, inputs[Len(inputs)], dl))

\* C19: however the steps of the two calls interleave, each call's state
\* (retry count, message history, tree), position, route, answer and the
\* reference data it read are those of the same call run alone over the
\* reference data as lifespan left it.
C19_RequestsRunAsIfAlone ==
    \A r \in Requests :
        \E alone \in {RunAlone(requests[r].inputs, data_loader)} :
            /\ requests[r].pc # "idle" => heap[StateObject(r)] = alone.st
            /\ requests[r].pc = alone.req.pc
            /\ requests[r].route = alone.req.route
            /\ requests[r].response = alone.req.response
            /\ requests[r].reads = alone.req.reads

\* One call is on its third attempt while the other, started in between, has
\* failed once and both have read the reference data.
C19_Witness ==
    /\ requests["r1"].pc = "should_repair" /\ heap[StateObject("r1")].retries = 2
    /\ requests["r2"].pc = "repair" /\ heap[StateObject("r2")].retries = 1
    /\ requests["r1"].reads # <<>> /\ requests["r2"].reads # <<>>


(***************************************************************************)
(* Claims about the retry counter and the planner's failure.               *)
(***************************************************************************)

\* The generation attempts that failed so far.
FailedAttempts == {i \in 1..Len(log) : ~log[i].ok}

\* The repair instructions in the message history.
RepairInstructions ==
    {i \in 1..Len(state.messages) : state.messages[i].kind = "repair"}

\* C29: retries stays within 0..MAX_RETRIES, never decreases and equals the
\* number of failed generation attempts; the history never holds more repair
\* instructions than retries; the renderer is entered only with an empty
\* validation_error.
C29_RetriesCountFailedAttempts ==
    /\ [](/\ GetRetries(state) \in 0..MAX_RETRIES
          /\ GetRetries(state) = Cardinality(FailedAttempts)
          /\ Cardinality(RepairInstructions) <= GetRetries(state)
          /\ (pc = "renderer" => ~Truthy(state.validation_error))
          /\ (rendered.entered => ~Truthy(rendered.verr)))
    /\ [][GetRetries(state') >= GetRetries(state)]_vars

\* Three attempts failed, two repairs were made, and a request that failed
\* once and then passed has entered the renderer.
C29_Witness ==
    /\ GetRetries(state) = 1
    /\ Cardinality(RepairInstructions) = 1
    /\ Len(log) = 2 /\ log[2].ok
    /\ rendered.entered
    /\ pc = "returned"

\* C30: after the planner failed, no node raises, the generator is never
\* called, nothing is rendered, and the endpoint answers "failed" with the
\* planner's error.
C30_PlannerFailureIsReportedAsFailed ==
    (pc # "planner" /\ state.design_plan = None) =>
        /\ pc # "raised"
        /\ log = <<>>
        /\ ~rendered.nf_ran /\ ~rendered.mm_ran
        /\ (pc = "returned" =>
              /\ response.status = "failed"
              /\ response.error = "Planner failed")

(***************************************************************************)
(* Claims about conditions and lazy calls.                                 *)
(***************************************************************************)

\* An `=` that is not part of ==, !=, <= or >=.
BareSingleEquals(v) ==
    \E i \in 1..Len(v) :
        /\ v[i] = "="
        /\ (i > 1 => v[i - 1] \notin {"=", "!", "<", ">"})
        /\ (i < Len(v) => v[i + 1] # "=")

\* C24: a non-empty condition is rejected exactly when its parentheses are
\* unbalanced or it holds a bare single `=`; comparisons written with ==,
\* !=, <= or >=, with or without spaces around them, are accepted.
C24_ConditionRejectedIffBareEquals ==
    (stage = "conditional" /\ Strip(tree.raw.condition) # <<>>)
    => LET v == Strip(tree.raw.condition)
       IN  ~result.ok <=> (Count(v, "(") # Count(v, ")") \/ BareSingleEquals(v))

RECURSIVE HoldsLazyCall(_)
\* A raw body holds, at some conditional depth, an assignment whose value has
\* the form name(args)[.attr] and carries a recognized marker.
HoldsLazyCall(body) ==
    \E i \in 1..Len(body) :
        \/ /\ "value" \in DOMAIN body[i]
           /\ IsLazyCall(body[i])
        \/ /\ "body" \in DOMAIN body[i]
           /\ HoldsLazyCall(body[i].body)

\* C21: a workflow body that holds such an assignment is never rejected by
\* the Assignment node's rule against process invocations: the assignment
\* was rewritten into a ProcessCall before the body was validated.
C21_LazyCallsRepairedEverywhere ==
    (stage = "workflow" /\ HoldsLazyCall(tree.main_workflow.body))
    => result.err # "Use ProcessCall node type for step execution, not Assignment"

\* C22: when the tree has no sub-workflows, or the main workflow declares no
\* inputs, deduplication leaves the main workflow body as it was.
C22_DedupOnlyWithSubWorkflowsAndInputs ==
    (stage = "canon"
        /\ (tree.sub_workflows = <<>> \/ tree.main_workflow.take_channels = <<>>))
    => result.value.main_workflow.body = tree.main_workflow.body

\* The argument-less call of the main workflow ensure_entrypoint_connectivity
\* builds.
NiladicCall(name) ==
    [type |-> "process_call", process_name |-> name, args |-> <<>>,
     assign_to |-> PyNone, output_attribute |-> PyNone]

\* C23: a tree that breaks no rule, with an empty entrypoint body and a main
\* workflow without inputs, is accepted with exactly one argument-less call
\* of the main workflow as its entrypoint body; with a non-empty entrypoint
\* body or declared inputs an accepted tree keeps its entrypoint body.
C23_EmptyEntrypointCallsMain ==
    (stage = "pipeline" /\ SatisfiesAllRules(tree))
    => IF tree.entrypoint.body = <<>> /\ tree.main_workflow.take_channels = <<>>
       THEN /\ result.ok
            /\ result.value.entrypoint.body = <<NiladicCall(tree.main_workflow.name)>>
       ELSE result.ok =>
               Len(result.value.entrypoint.body) = Len(tree.entrypoint.body)

(***************************************************************************)
(* Claims about the renderers.                                             *)
(***************************************************************************)

RECURSIVE StatementHeads(_)
\* How the lines of the statements of a body begin, in stored order.
StatementHeads(body) ==
    IF body = <<>> THEN <<>>
    ELSE LET stmt == Head(body)
         IN  (IF stmt.type = "process_call"
              THEN <<(IF TruthyText(stmt.assign_to) THEN stmt.assign_to \o <<" ", "=", " ">>
                      ELSE <<>>) \o stmt.process_name \o <<"(">> >>
              ELSE IF stmt.type = "channel_chain" THEN <<stmt.start_variable \o <<".">> >>
              ELSE IF stmt.type = "assignment" THEN <<stmt.variable \o <<" ", "=", " ">>>>
              ELSE <<<<"i", "f", " ", "(">> \o stmt.condition>> \o StatementHeads(stmt.body))
             \o StatementHeads(Tail(body))

WorkflowHeads(wf) ==
    <<<<"w", "o", "r", "k", "f", "l", "o", "w", " ">> \o wf.name \o <<" ", "{">>>> \o StatementHeads(wf.body)

\* How the blocks of the program text of a tree begin, in the order of the
\* claim: imports, globals, inline processes, sub-workflows, main workflow,
\* anonymous entrypoint.
ExpectedHeads(ast) ==
    [k \in 1..Len(ast.imports) |-> <<"i", "n", "c", "l", "u", "d", "e", " ", "{", " ">>]
    \o [k \in 1..Len(ast.globals) |-> <<"d", "e", "f", " ">> \o ast.globals[k].name]
    \o [k \in 1..Len(ast.processes) |-> <<"p", "r", "o", "c", "e", "s", "s", " ">> \o ast.processes[k].name]
    \o ConcatFrom(Map(WorkflowHeads, ast.sub_workflows), 1)
    \o WorkflowHeads(ast.main_workflow)
    \o <<<<"w", "o", "r", "k", "f", "l", "o", "w", " ", "{">>>> \o StatementHeads(ast.entrypoint.body)

RECURSIVE AppearInOrder(_, _, _, _)
\* heads[h..] begin lines of text[k..], each a later line than the one before.
AppearInOrder(heads, h, text, k) ==
    IF h > Len(heads) THEN TRUE
    ELSE IF k > Len(text) THEN FALSE
    ELSE IF StartsWith(LStrip(text[k]), heads[h])
    THEN AppearInOrder(heads, h + 1, text, k + 1)
    ELSE AppearInOrder(heads, h, text, k + 1)

\* C25: the program text of a validated tree holds, in this order, its
\* imports, its globals, one process block per inline process, one workflow
\* block per sub-workflow, the main workflow block and the anonymous
\* entrypoint block, the statements of every body in stored order.
C25_ProgramTextHasEveryBlockInOrder ==
    stage = "nextflow" =>
        AppearInOrder(ExpectedHeads(model_dump(tree).value), 1, result.value, 1)

\* The line of the only statement of the main workflow body: the line after
\* the last `main:`.
MainBodyLine(text) ==
    LET at == CHOOSE k \in 1..Len(text) :
                 /\ LStrip(text[k]) = <<"m", "a", "i", "n", ":">>
                 /\ \A j \in (k + 1)..Len(text) : LStrip(text[j]) # <<"m", "a", "i", "n", ":">>
    IN  LStrip(text[at + 1])

\* A literal between single quotes that ends at its closing quote: every
\* quote inside it is escaped.
EndsAtClosingQuote(lit) ==
    /\ Len(lit) >= 2
    /\ lit[1] = "'" /\ lit[Len(lit)] = "'"
    /\ \A j \in 2..(Len(lit) - 1) : lit[j] = "'" => lit[j - 1] = "\\"

\* C26: a string argument is written between single quotes with every quote
\* of its value escaped; a variable argument is written as its bare name and a
\* boolean as lower-case true/false.
C26_StringArgumentsAreQuotedAndEscaped ==
    (stage = "nextflow"
        /\ Len(model_dump(tree).value.main_workflow.body) = 1
        /\ model_dump(tree).value.main_workflow.body[1].type = "process_call"
        /\ Len(model_dump(tree).value.main_workflow.body[1].args) = 1
        /\ ~TruthyText(model_dump(tree).value.main_workflow.body[1].assign_to))
    => LET stmt == model_dump(tree).value.main_workflow.body[1]
           arg == stmt.args[1]
           line == MainBodyLine(result.value)
           written == SubSeq(line, Len(stmt.process_name) + 2, Len(line) - 1)
       IN  /\ StartsWith(line, stmt.process_name \o <<"(">>)
           /\ line[Len(line)] = ")"
           /\ (arg.type = "variable" => written = arg.name)
           /\ (arg.type = "numeric" /\ arg.value \in {<<"T", "r", "u", "e">>, <<"F", "a", "l", "s", "e">>}
                 => written \in {T_true, T_false})
           /\ (arg.type = "string" => EndsAtClosingQuote(written))

\* The pieces of a diagram line, and whether the line is an edge.
LinePieces(line) == SplitOn(LStrip(line), " ")

IsEdgeLine(line) ==
    \E i \in 1..Len(LinePieces(line)) : LinePieces(line)[i] \in {<<"-", "-", ">">>, <<"-", ".", "-", ">">>}

\* The (source, target, label) triple of an edge line.
EdgeTriple(line) ==
    <<LinePieces(line)[1],
      LinePieces(line)[Len(LinePieces(line))],
      IF Len(LinePieces(line)) = 5 THEN LinePieces(line)[3] ELSE <<>> >>

\* C27: every (source, target, label) edge triple is emitted at most once in
\* the diagram, also when the same call or chain occurs more than once.
C27_EveryEdgeTripleOnce ==
    stage = "mermaid" =>
        \A i, j \in 1..Len(result.value) :
            (i < j /\ IsEdgeLine(result.value[i]) /\ IsEdgeLine(result.value[j]))
                => EdgeTriple(result.value[i]) # EdgeTriple(result.value[j])

\* The names bound by the statements of a body before statement k.
BoundBefore(body, k) == UNION {Binds(body[j]) : j \in 1..(k - 1)}

\* C28: a call of the main body that passes an input of the main workflow is
\* linked from that input's node Var_<name>, and from no input node of a
\* sub-workflow scope, also when a sub-workflow declares an input of the
\* same name.
C28_MainReferenceLinksToMainInput ==
    stage = "mermaid" =>
        LET ast == model_dump(tree).value
            body == ast.main_workflow.body
            lines == result.value
        IN  \A k \in 1..Len(body) :
              body[k].type = "process_call" =>
                \A a \in 1..Len(body[k].args) :
                  LET arg == body[k].args[a]
                  IN  (/\ arg.type = "variable"
                       /\ InSeq(arg.name, ast.main_workflow.take_channels)
                       /\ arg.name \notin BoundBefore(body, k))
                      => /\ \E i \in 1..Len(lines) :
                               /\ IsEdgeLine(lines[i])
                               /\ EdgeTriple(lines[i]) =
                                    <<<<"V", "a", "r", "_">> \o arg.name, body[k].process_name, <<>> >>
                         /\ \A i \in 1..Len(lines) :
                               \A s \in 1..Len(ast.sub_workflows) :
                                  IsEdgeLine(lines[i]) =>
                                    EdgeTriple(lines[i]) #
                                      <<<<"V", "a", "r", "_">> \o arg.name \o <<"_">>
                                           \o ast.sub_workflows[s].name,
                                        body[k].process_name, <<>> >>
=========================================================================
